---- MODULE Spec2Model ----
(***************************************************************************)
(* Footnote reconciliation engine of LangGraph_Footnote_RAG_Advanced.py.   *)
(*                                                                         *)
(* Text is modelled as a sequence of lexemes.  A lexeme is a string: the   *)
(* units the program's regular expressions distinguish ("{FOOTNOTE",       *)
(* "[1]", ":", "}", "Page 1/9", " ", "\n", words) plus runs of ordinary     *)
(* characters ("x*2000" is 2000 characters holding no marker, no brace and *)
(* no whitespace).  len() of a text is the sum of the widths of its        *)
(* lexemes, so the program's size constants keep their real values.        *)
(***************************************************************************)
EXTENDS Integers, Sequences, FiniteSets, TLC

VARIABLES
    pc,               \* position of the operation under way
    raw_text,         \* state["raw_text"]
    max_size,         \* max_size argument of _page_aware_sections
    sections,         \* the batches of step 2
    section,          \* section argument of _inject_footnote_appendix
    global_defs,      \* marker -> definition text
    enriched_section, \* result of _inject_footnote_appendix
    healed_sections,  \* stripped SLM responses, one per section
    healed_text,      \* the joined responses, patched by the backfill
    footnotes,        \* extracted annotation occurrences, in source order
    registry,         \* marker -> record, the fold's and backfill's map
    todo,             \* markers of global_defs still to visit in step 5
    unique_footnotes, \* the returned registry (sorted list of records)
    enriched_text,    \* state["enriched_text"]
    enriched_chunks,  \* state["enriched_chunks"]
    protected,        \* the text enriched_chunker hands to the splitter
    vectorstore,      \* the documents of the vector store
    k_per_query,      \* k_per_query argument of _multi_query_retrieve
    calls,            \* the calls of outside services issued, in order
    retrieved,        \* what each similarity_search returned, in order
    seen,             \* the keys seen by _multi_query_retrieve
    results,          \* the list _multi_query_retrieve builds
    sentences_a,      \* sentences_a argument of _compute_semantic_diff
    sentences_b,      \* sentences_b argument of _compute_semantic_diff
    embedding,        \* the embedding service: text -> vector
    novel_a,          \* first mask returned by _compute_semantic_diff
    novel_b,          \* second mask returned by _compute_semantic_diff
    vec_a,            \* a argument of _cosine_similarity
    vec_b,            \* b argument of _cosine_similarity
    similarity,       \* what _cosine_similarity returns or raises
    source_exists,    \* whether state["source_file"] exists
    node,             \* the node of the graph under way
    status,           \* "running", "failed" (an exception left the graph), "END"
    executed,         \* how many times each node has started
    in_flight,        \* external-service calls issued and not yet returned
    raw_chunks,       \* state["raw_chunks"]
    footnotes_registry, \* state["footnotes_registry"]
    raw_summary,      \* state["raw_summary"]
    enriched_summary  \* state["enriched_summary"]

vars == <<pc, raw_text, max_size, sections, section, global_defs,
          enriched_section, healed_sections, healed_text, footnotes,
          registry, todo, unique_footnotes, enriched_text, enriched_chunks,
          protected, vectorstore, k_per_query, calls, retrieved, seen, results,
          sentences_a, sentences_b, embedding, novel_a, novel_b,
          vec_a, vec_b, similarity,
          source_exists, node, status, executed, in_flight, raw_chunks,
          footnotes_registry, raw_summary, enriched_summary>>

batchVars == <<raw_text, max_size, sections>>
injectVars == <<section, enriched_section>>
stitchVars == <<healed_sections, healed_text, footnotes, registry, todo,
                unique_footnotes>>
chunkVars == <<enriched_text, enriched_chunks, protected>>
retrieveVars == <<vectorstore, k_per_query, calls, retrieved, seen, results>>
diffVars == <<sentences_a, sentences_b, embedding, novel_a, novel_b>>
cosineVars == <<vec_a, vec_b, similarity>>
graphVars == <<source_exists, node, status, executed, in_flight,
               raw_chunks, footnotes_registry, raw_summary, enriched_summary>>
\* the state of the operations after the stitcher
laterVars == <<chunkVars, retrieveVars, diffVars, cosineVars, graphVars>>

\* the value of a variable no operation under way uses
Idle == <<>>

ChunkIdle == enriched_text = Idle /\ enriched_chunks = Idle /\ protected = Idle
RetrieveIdle ==
    /\ vectorstore = Idle /\ k_per_query = 0 /\ calls = Idle
    /\ retrieved = Idle /\ seen = {} /\ results = Idle
DiffIdle ==
    /\ sentences_a = Idle /\ sentences_b = Idle /\ embedding = Idle
    /\ novel_a = Idle /\ novel_b = Idle
CosineIdle == vec_a = Idle /\ vec_b = Idle /\ similarity = Idle
GraphIdle ==
    /\ source_exists = FALSE /\ node = "" /\ status = ""
    /\ executed = Idle /\ in_flight = 0 /\ raw_chunks = Idle
    /\ footnotes_registry = Idle /\ raw_summary = Idle
    /\ enriched_summary = Idle
LaterIdle == ChunkIdle /\ RetrieveIdle /\ DiffIdle /\ CosineIdle /\ GraphIdle

-----------------------------------------------------------------------------
(* Bounds of the model *)

MaxPages == 3
MaxPieces == 3
MaxDefLines == 3
MaxLexemes == 5
MaxRefs == 3

-----------------------------------------------------------------------------
(* Lexemes *)

\* Runs of ordinary characters and their lengths.
RunWidth ==
    [t \in {"x*20", "x*100", "x*300", "x*900", "x*2000", "x*3000", "x*5000"} |->
        CASE t = "x*20" -> 20
          [] t = "x*100" -> 100
          [] t = "x*300" -> 300
          [] t = "x*900" -> 900
          [] t = "x*2000" -> 2000
          [] t = "x*3000" -> 3000
          [] t = "x*5000" -> 5000]

\* len() of one lexeme
Width(t) == IF t \in DOMAIN RunWidth THEN RunWidth[t] ELSE Len(t)

RECURSIVE TextLen(_)
\* len() of a text
TextLen(text) ==
    IF text = <<>> THEN 0 ELSE Width(Head(text)) + TextLen(Tail(text))

\* \s
IsSpace(t) == t \in {" ", "\n"}

\* Page \d+/\d+
PageMarkers ==
    <<"Page 1/9", "Page 2/9", "Page 3/9", "Page 4/9", "Page 5/9">>

IsPageMarker(t) == \E k \in DOMAIN PageMarkers : PageMarkers[k] = t

\* str.strip() is truthy: some character is not whitespace
StripTruthy(text) == \E i \in DOMAIN text : ~IsSpace(text[i])

RECURSIVE Concat(_)
\* "".join(list)
Concat(list) ==
    IF list = <<>> THEN <<>> ELSE Head(list) \o Concat(Tail(list))

\* \[(\d+)\]: a marker in brackets, and int() of its digits
MarkerInt ==
    [t \in {"[1]", "[2]", "[3]", "[01]"} |->
        CASE t = "[1]" -> 1
          [] t = "[2]" -> 2
          [] t = "[3]" -> 3
          [] t = "[01]" -> 1]

IsMarkerTok(t) == t \in DOMAIN MarkerInt

\* f"[{marker}]"
MarkerTok(m) == CASE m = 1 -> "[1]" [] m = 2 -> "[2]" [] m = 3 -> "[3]"

RECURSIVE JoinWith(_, _)
\* sep.join(list)
JoinWith(sep, list) ==
    IF list = <<>> THEN <<>>
    ELSE IF Len(list) = 1 THEN list[1]
    ELSE list[1] \o sep \o JoinWith(sep, Tail(list))

RECURSIVE SortedSeq(_)
\* sorted(set): the members in ascending order
SortedSeq(S) ==
    IF S = {} THEN <<>>
    ELSE LET lo == CHOOSE x \in S : \A y \in S : x <= y
         IN  <<lo>> \o SortedSeq(S \ {lo})

\* str.upper() of one lexeme: among the lexemes, only "missing" changes
\* into something that matters
Upper(t) == IF t = "missing" THEN "MISSING" ELSE t

RECURSIVE SkipSpace(_, _)
\* \s* (greedy) from position i: the position it stops at
SkipSpace(text, i) ==
    IF i <= Len(text) /\ IsSpace(text[i]) THEN SkipSpace(text, i + 1) ELSE i

\* str.strip()
Strip(text) ==
    LET solid == {i \in DOMAIN text : ~IsSpace(text[i])}
    IN  IF solid = {} THEN <<>>
        ELSE SubSeq(text,
                    CHOOSE i \in solid : \A j \in solid : i <= j,
                    CHOOSE i \in solid : \A j \in solid : i >= j)

RECURSIVE SplitJoin(_, _, _, _)
\* " ".join(text.split()): whitespace runs become one space, none at the ends
SplitJoin(text, i, out, gap) ==
    IF i > Len(text) THEN out
    ELSE IF IsSpace(text[i]) THEN SplitJoin(text, i + 1, out, out # <<>>)
    ELSE SplitJoin(text, i + 1,
                   out \o (IF gap THEN <<" ">> ELSE <<>>) \o <<text[i]>>,
                   FALSE)

\* a Python dict: its keys in insertion order, and its values
EmptyDict == [keys |-> <<>>, val |-> <<>>]

DictHas(d, k) == k \in DOMAIN d.val

\* d[k] = v
DictSet(d, k, v) ==
    [keys |-> IF DictHas(d, k) THEN d.keys ELSE Append(d.keys, k),
     val |-> (k :> v) @@ d.val]

\* list(d.values())
DictValues(d) == [i \in DOMAIN d.keys |-> d.val[d.keys[i]]]

\* a regular expression that does not match
NoMatch == [ok |-> FALSE]

-----------------------------------------------------------------------------
(* _extract_global_footnote_defs *)

\* the lookahead (?=\n\[\d+\]|\nPage \d+/|\nCONFIDENTIAL|\Z) at position n
DefLookahead(text, n) ==
    \/ n > Len(text)
    \/ /\ text[n] = "\n"
       /\ n + 1 <= Len(text)
       /\ \/ IsMarkerTok(text[n + 1])
          \/ IsPageMarker(text[n + 1])
          \/ text[n + 1] = "CONFIDENTIAL"

RECURSIVE LazyDefEnd(_, _)
\* (.+?) from a start up to e, the least end the lookahead accepts
LazyDefEnd(text, e) ==
    IF DefLookahead(text, e + 1) THEN e ELSE LazyDefEnd(text, e + 1)

\* _FOOTNOTE_DEF_RE matched at position i: ^\[(\d+)\]\s+(.+?)(?=...).
\* \s+ takes all the whitespace it can; it gives one back only when
\* nothing else is left for (.+?)
MatchDefAt(text, i) ==
    LET q == SkipSpace(text, i + 1)
    IN  IF ~(/\ i = 1 \/ text[i - 1] = "\n"
             /\ IsMarkerTok(text[i])
             /\ q >= i + 2)
        THEN NoMatch
        ELSE IF q <= Len(text)
        THEN LET e == LazyDefEnd(text, q)
             IN  [ok |-> TRUE, marker |-> MarkerInt[text[i]],
                  group |-> SubSeq(text, q, e), end |-> e]
        ELSE IF q - 1 >= i + 2
        THEN [ok |-> TRUE, marker |-> MarkerInt[text[i]],
              group |-> <<text[q - 1]>>, end |-> q - 1]
        ELSE NoMatch

RECURSIVE FindDefs(_, _)
\* _FOOTNOTE_DEF_RE.finditer(raw_text)
FindDefs(text, i) ==
    IF i > Len(text) THEN <<>>
    ELSE LET m == MatchDefAt(text, i)
         IN  IF m.ok THEN <<m>> \o FindDefs(text, m.end + 1)
             ELSE FindDefs(text, i + 1)

\* the test, were a candidate of equal length to replace the one kept
KeepsDefOrEqual(defs, marker, text) ==
    ~DictHas(defs, marker) \/ TextLen(text) >= TextLen(defs.val[marker])

\* "if marker not in defs or len(text) > len(defs[marker]):"
KeepsDef(defs, marker, text) ==
    ~DictHas(defs, marker) \/ TextLen(text) > TextLen(defs.val[marker])

RECURSIVE ScanDefs(_, _)
\* the loop over the matches
ScanDefs(matches, defs) ==
    IF matches = <<>> THEN defs
    ELSE LET m == Head(matches)
             text == SplitJoin(m.group, 1, <<>>, FALSE)
         IN  ScanDefs(Tail(matches),
                      IF KeepsDef(defs, m.marker, text)
                      THEN DictSet(defs, m.marker, text)
                      ELSE defs)

_extract_global_footnote_defs(text) == ScanDefs(FindDefs(text, 1), EmptyDict)

-----------------------------------------------------------------------------
(* _page_aware_sections *)

RECURSIVE re_split(_, _, _)
\* re.split(r"(Page \d+/\d+)", raw_text): texts and markers alternate,
\* starting and ending with a (possibly empty) text.
re_split(text, i, parts) ==
    IF i > Len(text) THEN parts
    ELSE IF IsPageMarker(text[i])
         THEN re_split(text, i + 1, parts \o << <<text[i]>>, <<>> >>)
         ELSE re_split(text, i + 1,
                       [parts EXCEPT ![Len(parts)] = @ \o <<text[i]>>])

\* re.fullmatch(r"Page \d+/\d+", part)
FullMatchPage(part) == Len(part) = 1 /\ IsPageMarker(part[1])

\* a remainder that is never kept, whatever it holds
KeepRemainderNever(buf) == FALSE

\* "if buf.strip():" the text after the last page marker is a page of its
\* own unless it is empty or whitespace
KeepRemainder(buf) == StripTruthy(buf)

RECURSIVE AssemblePages(_, _, _, _)
\* the loop over parts: each page is its content plus its trailer
AssemblePages(parts, i, pages, buf) ==
    IF i > Len(parts)
    THEN IF KeepRemainder(buf) THEN Append(pages, buf) ELSE pages
    ELSE LET b == buf \o parts[i]
         IN  IF FullMatchPage(parts[i])
             THEN AssemblePages(parts, i + 1, Append(pages, b), <<>>)
             ELSE AssemblePages(parts, i + 1, pages, b)

Pages(text) == AssemblePages(re_split(text, 1, << <<>> >>), 1, <<>>, <<>>)

\* the batch is closed whenever the sum is too large, even when empty
CloseSectionEvenEmpty(current, page, max) ==
    TextLen(current) + TextLen(page) > max

\* the batch is closed only when the next page alone is too large
CloseSectionPageOnly(current, page, max) ==
    current # <<>> /\ TextLen(page) > max

\* the batch is closed at every page
CloseSectionEveryPage(current, page, max) == current # <<>>

\* "if current and len(current) + len(page) > max_size:"
CloseSection(current, page, max) ==
    current # <<>> /\ TextLen(current) + TextLen(page) > max

RECURSIVE MergePages(_, _, _, _, _)
\* the loop over pages: merge while the batch stays within max_size
MergePages(pages, i, secs, current, max) ==
    IF i > Len(pages)
    THEN IF StripTruthy(current) THEN Append(secs, current) ELSE secs
    ELSE IF CloseSection(current, pages[i], max)
         THEN MergePages(pages, i + 1, Append(secs, current), pages[i], max)
         ELSE MergePages(pages, i + 1, secs, current \o pages[i], max)

_page_aware_sections(text, max) == MergePages(Pages(text), 1, <<>>, <<>>, max)

\* SLM_BATCH_SIZE of slm_footnote_stitcher
SLM_BATCH_SIZE == 4500

\* the single pass taken only for a document within one batch
FastPathOneBatch(text) == TextLen(text) <= SLM_BATCH_SIZE

\* "if len(raw_text) <= SLM_BATCH_SIZE * 1.5:"; the product is the float
\* 6750.0, so the test is 2 * len <= 3 * SLM_BATCH_SIZE in integers
FastPath(text) == 2 * TextLen(text) <= 3 * SLM_BATCH_SIZE

\* step 2 of slm_footnote_stitcher
Step2Sections(text) ==
    IF FastPath(text)
    THEN <<text>>
    ELSE _page_aware_sections(text, SLM_BATCH_SIZE)

-----------------------------------------------------------------------------
(* Inputs of the batcher *)

\* page bodies: empty, whitespace, small, and up to more than a batch
Bodies ==
    { <<>>, <<"\n">>, <<"x*100", "\n">>, <<"x*2000", "\n">>,
      <<"\n", "x*3000">>, <<"x*5000">> }

\* what follows the last page marker
Trailers == { <<>>, <<"\n">>, <<"x*100">>, <<"x*5000", "\n">> }

RECURSIVE DocOf(_, _)
\* bodies[k] followed by the k-th page marker, for each k
DocOf(bodies, k) ==
    IF k > Len(bodies) THEN <<>>
    ELSE bodies[k] \o <<PageMarkers[k]>> \o DocOf(bodies, k + 1)

BatchDocs ==
    { DocOf(bs, 1) \o tr :
        bs \in UNION { [1..n -> Bodies] : n \in 0..MaxPages },
        tr \in Trailers }

MaxSizes == {3000, SLM_BATCH_SIZE}

-----------------------------------------------------------------------------
(* Specification of the batcher *)

InitBatch ==
    /\ pc \in {"call_page_aware_sections", "step2"}
    /\ raw_text \in BatchDocs
    /\ max_size \in (IF pc = "step2" THEN {SLM_BATCH_SIZE} ELSE MaxSizes)
    /\ sections = <<>>
    /\ section = Idle /\ global_defs = Idle /\ enriched_section = Idle
    /\ healed_sections = Idle /\ healed_text = Idle /\ footnotes = Idle
    /\ registry = Idle /\ todo = Idle /\ unique_footnotes = Idle
    /\ LaterIdle

\* a direct call _page_aware_sections(raw_text, max_size)
CallPageAwareSections ==
    /\ pc = "call_page_aware_sections"
    /\ sections' = _page_aware_sections(raw_text, max_size)
    /\ pc' = "paged"
    /\ UNCHANGED <<raw_text, max_size, section, global_defs, enriched_section>>
    /\ UNCHANGED stitchVars
    /\ UNCHANGED laterVars

\* step 2 of slm_footnote_stitcher
Step2Batching ==
    /\ pc = "step2"
    /\ sections' = Step2Sections(raw_text)
    /\ pc' = "batched"
    /\ UNCHANGED <<raw_text, max_size, section, global_defs, enriched_section>>
    /\ UNCHANGED stitchVars
    /\ UNCHANGED laterVars

NextBatch == CallPageAwareSections \/ Step2Batching

SpecBatch == InitBatch /\ [][NextBatch]_vars

-----------------------------------------------------------------------------
(* Properties of the batcher *)

\* text p is a prefix of text t
IsPrefix(p, t) == Len(p) <= Len(t) /\ SubSeq(t, 1, Len(p)) = p

\* what follows the first n lexemes of t
Rest(t, n) == SubSeq(t, n + 1, Len(t))

\* the number of page markers in a text
NumMarkers(t) == Cardinality({i \in DOMAIN t : IsPageMarker(t[i])})

\* the number of pages a text holds: one per marker, and one more for a
\* remainder after the last marker
PagesIn(t) ==
    NumMarkers(t) + (IF t # <<>> /\ ~IsPageMarker(t[Len(t)]) THEN 1 ELSE 0)

\* the sections come from _page_aware_sections
FromPager == pc = "paged" \/ (pc = "batched" /\ ~FastPath(raw_text))

BatchDone == pc \in {"paged", "batched"}

\* C6 as stated: concatenating the sections the stitcher's batching
\* produced, in order, reconstructs the original document exactly.
C6_ReconstructsExactly == pc = "batched" => Concat(sections) = raw_text

\* C6 amended: the concatenation of the sections is a prefix of the
\* document, and what is missing is whitespace only, standing after the
\* last page marker (or being the whole document); on the single-pass
\* path nothing is missing.
C6_ReconstructsUpToTrailingSpace ==
    BatchDone =>
        LET joined == Concat(sections)
            lost == Rest(raw_text, Len(joined))
        IN  /\ IsPrefix(joined, raw_text)
            /\ \A i \in DOMAIN lost : IsSpace(lost[i])
            /\ lost # <<>> =>
                  /\ FromPager
                  /\ joined = <<>> \/ IsPageMarker(joined[Len(joined)])

\* a document split in several sections whose trailing whitespace is lost
C6_Witness ==
    /\ pc = "batched"
    /\ Len(sections) >= 2
    /\ Concat(sections) # raw_text
    /\ IsPrefix(Concat(sections), raw_text)

\* C7: every section of _page_aware_sections is one or more whole
\* consecutive pages: no section is empty, the sections in order are a
\* prefix of the document, and every section other than the last ends
\* exactly at a page marker.
C7_NeverSplitsPage ==
    FromPager =>
        /\ IsPrefix(Concat(sections), raw_text)
        /\ \A k \in DOMAIN sections :
              /\ PagesIn(sections[k]) >= 1
              /\ k < Len(sections) =>
                    IsPageMarker(sections[k][Len(sections[k])])

\* several sections, one of them holding two whole pages
C7_Witness ==
    /\ pc = "paged"
    /\ Len(sections) >= 2
    /\ \E k \in DOMAIN sections : NumMarkers(sections[k]) >= 2

\* C8: a section of two or more pages is at most max_size long; a
\* section longer than max_size is a single page, kept whole.
C8_SizeCap ==
    FromPager =>
        \A k \in DOMAIN sections :
            /\ PagesIn(sections[k]) >= 2 => TextLen(sections[k]) <= max_size
            /\ TextLen(sections[k]) > max_size =>
                  /\ PagesIn(sections[k]) = 1
                  /\ \E n \in 0..Len(raw_text) :
                        /\ n = 0 \/ IsPageMarker(raw_text[n])
                        /\ IsPrefix(sections[k], Rest(raw_text, n))

\* an oversized single page next to a merged section of two pages
C8_Witness ==
    /\ pc = "paged"
    /\ \E k \in DOMAIN sections : TextLen(sections[k]) > max_size
    /\ \E k \in DOMAIN sections :
          PagesIn(sections[k]) >= 2 /\ TextLen(sections[k]) > max_size - 500

\* C9: a document of at most 1.5 times 4500 characters is returned as one
\* section, the whole document, however many page markers it holds; only
\* longer documents come back as several sections.
C9_SmallDocFastPath ==
    pc = "batched" =>
        /\ 10 * TextLen(raw_text) <= 15 * 4500 => sections = <<raw_text>>
        /\ Len(sections) # 1 => 10 * TextLen(raw_text) > 15 * 4500

\* a document of several pages, longer than one batch and within 1.5
\* batches, returned whole
C9_Witness ==
    /\ pc = "batched"
    /\ NumMarkers(raw_text) >= 2
    /\ TextLen(raw_text) > 4500
    /\ TextLen(raw_text) <= 6750
    /\ sections = <<raw_text>>

-----------------------------------------------------------------------------
(* _inject_footnote_appendix *)

RECURSIVE FindAllMarkers(_)
\* re.findall(r"\[(\d+)\]", section), each converted by int()
FindAllMarkers(text) ==
    IF text = <<>> THEN <<>>
    ELSE (IF IsMarkerTok(Head(text)) THEN <<MarkerInt[Head(text)]>> ELSE <<>>)
         \o FindAllMarkers(Tail(text))

RECURSIVE FirstOccurrences(_, _)
\* a list without its repetitions, in the order of first occurrence
FirstOccurrences(list, found) ==
    IF list = <<>> THEN <<>>
    ELSE IF Head(list) \in found THEN FirstOccurrences(Tail(list), found)
    ELSE <<Head(list)>> \o FirstOccurrences(Tail(list), found \cup {Head(list)})

\* the markers of the section in the order they are first referenced
markers_in_section_unsorted(text) == FirstOccurrences(FindAllMarkers(text), {})

\* markers_in_section = sorted(set(int(m) for m in re.findall(...)))
markers_in_section(text) ==
    LET found == FindAllMarkers(text)
    IN  SortedSeq({found[i] : i \in DOMAIN found})

RECURSIVE appendix_lines(_, _)
\* the loop over markers_in_section: one line per marker with a definition
appendix_lines(markers, defs) ==
    IF markers = <<>> THEN <<>>
    ELSE (IF DictHas(defs, Head(markers))
          THEN << <<MarkerTok(Head(markers)), " ">> \o defs.val[Head(markers)] >>
          ELSE <<>>)
         \o appendix_lines(Tail(markers), defs)

AppendixHeader ==
    <<"\n", "\n", "--- FOOTNOTE DEFINITIONS (for reference) ---", "\n">>

_inject_footnote_appendix(sec, defs) ==
    LET markers == markers_in_section(sec)
        lines == appendix_lines(markers, defs)
    IN  IF markers = <<>> THEN sec
        ELSE IF lines = <<>> THEN sec
        ELSE sec \o AppendixHeader \o JoinWith(<<"\n">>, lines)

-----------------------------------------------------------------------------
(* Inputs of the injector *)

\* the definition texts of the ground truth, whitespace-normalised
DefText(m) ==
    CASE m = 1 -> <<"Revenue", " ", "growth", " ", "includes", " ", "a",
                    " ", "one-time", " ", "item.">>
      [] m = 2 -> <<"Unaudited.">>
      [] m = 3 -> <<"See", " ", "note.">>

\* ground-truth mappings: any subset of the markers, each with its text
DefMaps ==
    { [keys |-> SortedSeq(S), val |-> [m \in S |-> DefText(m)]] :
        S \in SUBSET {1, 2, 3} }

RECURSIVE CitingText(_)
\* a sentence citing the given markers, one after the other
CitingText(refs) ==
    IF refs = <<>> THEN <<"Margins", " ", "improved.">>
    ELSE <<"Revenue", " ", "grew">> \o <<Head(refs)>> \o <<".", "\n">>
         \o CitingText(Tail(refs))

InjectSections ==
    { CitingText(refs) :
        refs \in UNION { [1..n -> DOMAIN MarkerInt] : n \in 0..MaxRefs } }

-----------------------------------------------------------------------------
(* Specification of the injector *)

InitInject ==
    /\ pc = "call_inject_footnote_appendix"
    /\ section \in InjectSections
    /\ global_defs \in DefMaps
    /\ enriched_section = Idle
    /\ raw_text = Idle /\ max_size = SLM_BATCH_SIZE /\ sections = Idle
    /\ healed_sections = Idle /\ healed_text = Idle /\ footnotes = Idle
    /\ registry = Idle /\ todo = Idle /\ unique_footnotes = Idle
    /\ LaterIdle

\* a call _inject_footnote_appendix(section, global_defs)
CallInjectFootnoteAppendix ==
    /\ pc = "call_inject_footnote_appendix"
    /\ enriched_section' = _inject_footnote_appendix(section, global_defs)
    /\ pc' = "injected"
    /\ UNCHANGED <<section, global_defs>>
    /\ UNCHANGED batchVars
    /\ UNCHANGED stitchVars
    /\ UNCHANGED laterVars

NextInject == CallInjectFootnoteAppendix

SpecInject == InitInject /\ [][NextInject]_vars

-----------------------------------------------------------------------------
(* Properties of the injector *)

RECURSIVE SplitLines(_, _)
\* the lines of a text: its pieces between newlines
SplitLines(text, line) ==
    IF text = <<>> THEN <<line>>
    ELSE IF Head(text) = "\n" THEN <<line>> \o SplitLines(Tail(text), <<>>)
    ELSE SplitLines(Tail(text), Append(line, Head(text)))

\* the markers the section references
Referenced(sec) == {MarkerInt[sec[i]] : i \in {j \in DOMAIN sec : IsMarkerTok(sec[j])}}

\* C10: the section comes back unchanged when it references no marker or
\* none of its markers has a definition; otherwise it comes back followed
\* by one appendix block with a line "[N] <definition>" exactly once for
\* each referenced marker that has a definition, in ascending marker
\* order, and no line for any other marker.
C10_Appendix ==
    pc = "injected" =>
        LET listed == Referenced(section) \cap DOMAIN global_defs.val
            added == Rest(enriched_section, Len(section))
            lines == SplitLines(Rest(added, Len(AppendixHeader)), <<>>)
        IN  /\ IsPrefix(section, enriched_section)
            /\ listed = {} => enriched_section = section
            /\ listed # {} =>
                  /\ IsPrefix(AppendixHeader, added)
                  /\ Len(lines) = Cardinality(listed)
                  /\ \A k \in DOMAIN lines :
                        \E m \in listed :
                            lines[k] = <<MarkerTok(m), " ">> \o global_defs.val[m]
                  /\ \A k \in DOMAIN lines : \A l \in DOMAIN lines :
                        k < l => MarkerInt[lines[k][1]] < MarkerInt[lines[l][1]]

\* a section citing marker 2 before marker 1, one of them twice and in two
\* spellings, and a marker without a definition
C10_Witness ==
    /\ pc = "injected"
    /\ \E i, j, k \in DOMAIN section :
          /\ i < j /\ j < k
          /\ section[i] = "[2]" /\ section[j] = "[01]" /\ section[k] = "[3]"
    /\ DOMAIN global_defs.val = {1, 2}
    /\ enriched_section # section

-----------------------------------------------------------------------------
(* slm_footnote_stitcher, steps 3 to 5 *)

RECURSIVE FirstClose(_, _)
\* the first "}" at or after position i; 0 when there is none
FirstClose(text, i) ==
    IF i > Len(text) THEN 0
    ELSE IF text[i] = "}" THEN i
    ELSE FirstClose(text, i + 1)

\* footnote_pattern matched at position i:
\* \{FOOTNOTE\s*\[(\d+)\]\s*:\s*(.+?)\} with DOTALL.  (.+?) takes at least
\* one character, a "}" included, and then runs to the next "}"; the last
\* \s* gives a space back only when no other match exists
MatchFootnoteAt(text, i) ==
    IF text[i] # "{FOOTNOTE" THEN NoMatch
    ELSE LET j == SkipSpace(text, i + 1)
         IN  IF ~(j <= Len(text) /\ IsMarkerTok(text[j])) THEN NoMatch
             ELSE LET k == SkipSpace(text, j + 1)
                  IN  IF ~(k <= Len(text) /\ text[k] = ":") THEN NoMatch
                      ELSE LET q == SkipSpace(text, k + 1)
                               e == FirstClose(text, q + 1)
                           IN  IF q <= Len(text) /\ e # 0
                               THEN [ok |-> TRUE, marker |-> MarkerInt[text[j]],
                                     group |-> SubSeq(text, q, e - 1), end |-> e]
                               ELSE IF /\ q <= Len(text)
                                       /\ text[q] = "}"
                                       /\ q > k + 1
                               THEN [ok |-> TRUE, marker |-> MarkerInt[text[j]],
                                     group |-> <<text[q - 1]>>, end |-> q]
                               ELSE NoMatch

RECURSIVE FindFootnotes(_, _)
\* the list built from footnote_pattern.finditer(healed_text)
FindFootnotes(text, i) ==
    IF i > Len(text) THEN <<>>
    ELSE LET m == MatchFootnoteAt(text, i)
         IN  IF m.ok
             THEN << [marker |-> m.marker, text |-> Strip(m.group),
                      status |-> "linked"] >>
                  \o FindFootnotes(text, m.end + 1)
             ELSE FindFootnotes(text, i + 1)

\* "MISSING" in text.upper()
HasSentinel(text) == \E i \in DOMAIN text : Upper(text[i]) = "MISSING"

\* the last occurrence always replaces the entry
ReplacesAlways(existing, fn) == TRUE

\* the tests, were an occurrence of equal length to replace the entry
ReplacesOnTies(existing, fn) ==
    LET is_missing == HasSentinel(fn.text)
    IN  \/ HasSentinel(existing.text) /\ ~is_missing
        \/ ~is_missing /\ TextLen(fn.text) >= TextLen(existing.text)

\* the two elif tests of the fold: whether fn replaces the existing entry
Replaces(existing, fn) ==
    LET is_missing == HasSentinel(fn.text)
    IN  \/ HasSentinel(existing.text) /\ ~is_missing
        \/ ~is_missing /\ TextLen(fn.text) > TextLen(existing.text)

\* the fold, were it to pass over the sentinel annotations
FoldOneSkipsSentinels(reg, fn) ==
    IF HasSentinel(fn.text) THEN reg
    ELSE IF ~DictHas(reg, fn.marker) THEN DictSet(reg, fn.marker, fn)
    ELSE IF Replaces(reg.val[fn.marker], fn) THEN DictSet(reg, fn.marker, fn)
    ELSE reg

\* the body of the loop "for fn in footnotes"
FoldOne(reg, fn) ==
    IF ~DictHas(reg, fn.marker) THEN DictSet(reg, fn.marker, fn)
    ELSE IF Replaces(reg.val[fn.marker], fn) THEN DictSet(reg, fn.marker, fn)
    ELSE reg

RECURSIVE Fold(_, _)
\* the loop "for fn in footnotes"
Fold(fns, reg) ==
    IF fns = <<>> THEN reg ELSE Fold(Tail(fns), FoldOne(reg, Head(fns)))

\* the pattern of the patch matched at position i:
\* \{FOOTNOTE\s*\[<marker>\]\s*:\s*MISSING[^}]*\}, the end of the match
\* or 0
MatchSentinelAt(text, i, marker) ==
    IF text[i] # "{FOOTNOTE" THEN 0
    ELSE LET j == SkipSpace(text, i + 1)
         IN  IF ~(j <= Len(text) /\ text[j] = MarkerTok(marker)) THEN 0
             ELSE LET k == SkipSpace(text, j + 1)
                  IN  IF ~(k <= Len(text) /\ text[k] = ":") THEN 0
                      ELSE LET q == SkipSpace(text, k + 1)
                           IN  IF q <= Len(text) /\ text[q] = "MISSING"
                               THEN FirstClose(text, q + 1)
                               ELSE 0

RECURSIVE re_sub_sentinel(_, _, _, _)
\* re.sub(pattern, replacement, healed_text, count=0)
re_sub_sentinel(text, i, marker, repl) ==
    IF i > Len(text) THEN <<>>
    ELSE LET e == MatchSentinelAt(text, i, marker)
         IN  IF e # 0 THEN repl \o re_sub_sentinel(text, e + 1, marker, repl)
             ELSE <<text[i]>> \o re_sub_sentinel(text, i + 1, marker, repl)

\* f"{{FOOTNOTE [{marker}]: {defn_text}}}"
Annotation(marker, defn_text) ==
    <<"{FOOTNOTE", " ", MarkerTok(marker), ":", " ">> \o defn_text \o <<"}">>

\* the record, were it to keep the annotation in place of the definition
BackfilledAsAnnotation(marker, defn_text) ==
    [marker |-> marker, text |-> Annotation(marker, defn_text),
     status |-> "backfilled"]

\* {"marker": marker, "text": defn_text, "status": "backfilled"}
Backfilled(marker, defn_text) ==
    [marker |-> marker, text |-> defn_text, status |-> "backfilled"]

\* a marker the SLM did not discover is left out
BackfillOneNoInsert(reg, healed, marker, defn_text) ==
    IF ~DictHas(reg, marker)
    THEN [registry |-> reg, healed_text |-> healed]
    ELSE IF HasSentinel(reg.val[marker].text)
    THEN [registry |-> DictSet(reg, marker, Backfilled(marker, defn_text)),
          healed_text |->
              re_sub_sentinel(healed, 1, marker, Annotation(marker, defn_text))]
    ELSE IF 5 * TextLen(reg.val[marker].text) < 3 * TextLen(defn_text)
    THEN [registry |-> DictSet(reg, marker, Backfilled(marker, defn_text)),
          healed_text |-> healed]
    ELSE [registry |-> reg, healed_text |-> healed]

\* a truncated entry is kept as the SLM gave it
BackfillOneNoTruncation(reg, healed, marker, defn_text) ==
    IF ~DictHas(reg, marker)
    THEN [registry |-> DictSet(reg, marker, Backfilled(marker, defn_text)),
          healed_text |-> healed]
    ELSE IF HasSentinel(reg.val[marker].text)
    THEN [registry |-> DictSet(reg, marker, Backfilled(marker, defn_text)),
          healed_text |->
              re_sub_sentinel(healed, 1, marker, Annotation(marker, defn_text))]
    ELSE [registry |-> reg, healed_text |-> healed]

\* the body of the loop "for marker, defn_text in global_defs.items()";
\* len(entry) < len(defn_text) * 0.6 is 5 * len(entry) < 3 * len(defn_text):
\* the float product never exceeds the exact one by a whole unit
BackfillOne(reg, healed, marker, defn_text) ==
    IF ~DictHas(reg, marker)
    THEN [registry |-> DictSet(reg, marker, Backfilled(marker, defn_text)),
          healed_text |-> healed]
    ELSE IF HasSentinel(reg.val[marker].text)
    THEN [registry |-> DictSet(reg, marker, Backfilled(marker, defn_text)),
          healed_text |->
              re_sub_sentinel(healed, 1, marker, Annotation(marker, defn_text))]
    ELSE IF 5 * TextLen(reg.val[marker].text) < 3 * TextLen(defn_text)
    THEN [registry |-> DictSet(reg, marker, Backfilled(marker, defn_text)),
          healed_text |-> healed]
    ELSE [registry |-> reg, healed_text |-> healed]

RECURSIVE InsertByMarker(_, _)
\* fn put into an ascending list, after the records that do not exceed it
InsertByMarker(fn, list) ==
    IF list = <<>> THEN <<fn>>
    ELSE IF Head(list).marker <= fn.marker
    THEN <<Head(list)>> \o InsertByMarker(fn, Tail(list))
    ELSE <<fn>> \o list

RECURSIVE SortByMarker(_, _)
SortByMarker(list, sorted) ==
    IF list = <<>> THEN sorted
    ELSE SortByMarker(Tail(list), InsertByMarker(Head(list), sorted))

\* the records as the dict holds them
registry_values_unsorted(reg) == DictValues(reg)

\* sorted(registry.values(), key=lambda fn: fn["marker"])
sorted_registry_values(reg) == SortByMarker(DictValues(reg), <<>>)

-----------------------------------------------------------------------------
(* Inputs of the stitcher: documents and SLM responses *)

GroundTruth1 ==
    <<"Revenue", " ", "growth", " ", "includes", " ", "a", " ", "one-time",
      " ", "item.">>

\* a page citing [1] and [2] and defining both, [1] over two lines
DocTwoDefs ==
    <<"Revenue", " ", "grew", "[1]", ".", "\n", "Unaudited", "[2]", ".", "\n",
      "[1]", " ", "Revenue", " ", "growth", " ", "includes", " ", "a", "\n",
      "one-time", " ", "item.", "\n", "[2]", " ", "Unaudited.", "\n",
      "Page 1/9", "\n">>

\* a document with no definition
DocNoDefs == <<"Margins", " ", "improved.">>

\* [3] defined before [1], and [1] defined twice, the longer one last
DocRepeatedDef ==
    <<"[3]", " ", "See", " ", "note.", "\n", "[1]", " ", "Revenue", " ",
      "grew.", "\n", "CONFIDENTIAL", "\n", "[1]", " ", " ">>
    \o GroundTruth1

\* two pages, more than 1.5 batches: [1] cited on the first page and
\* defined on the second
DocTwoBatches ==
    <<"x*5000", " ", "[1]", "\n", "Page 1/9", "\n", "x*3000", "\n", "[1]",
      " ", "Unaudited.", "\n", "Page 2/9", "\n">>

StitchDocs == {DocTwoDefs, DocNoDefs, DocRepeatedDef, DocTwoBatches}

\* what the SLM may write: annotations, plain text, a malformed annotation
Pieces ==
    { <<"{FOOTNOTE", " ", "[1]", ":", " ">> \o GroundTruth1 \o <<"}">>,
      <<"{FOOTNOTE", " ", "[1]", ":", " ", "Revenue", " ", "growth", " ",
        "includes", " ", "a", " ", "one-time", " ", "gain.", "}">>,
      <<"{FOOTNOTE", " ", "[01]", ":", " ", "Revenue", " ", "grew.", "}">>,
      <<"{FOOTNOTE", " ", "[1]", ":", " ", "MISSING", "}">>,
      <<"{FOOTNOTE", " ", "[1]", ":", " ", "Definition", " ", "missing", "}">>,
      <<"{FOOTNOTE", "[2]", " ", ":", "\n", "No", "\n", "fee", " ", "}">>,
      <<"{FOOTNOTE", " ", "[2]", ":", " ", "}">>,
      <<"{FOOTNOTE", " ", "[3]", ":", " ", "MISSING", " ", "-", " ", "n/a",
        "}">>,
      <<"{FOOTNOTE", " ", "[3]", ":", " ", "See", " ", "note.", "}">>,
      <<"Margins", " ", "improved.">> }

\* response.content of one SLM call writing the given pieces
Response(pieces) == <<"\n">> \o JoinWith(<<"\n">>, pieces) \o <<" ", "\n">>

Responses(n) ==
    { Response(ps) : ps \in UNION { [1..k -> Pieces] : k \in 0..n } }

\* the pieces written so far
PiecesIn(healed) ==
    Cardinality({i \in DOMAIN healed :
                    /\ healed[i] \in {"{FOOTNOTE", "Margins"}
                    /\ i = 1 \/ healed[i - 1] = "\n"})

-----------------------------------------------------------------------------
(* Specification of the stitcher *)

InitStitch ==
    /\ pc = "step1"
    /\ raw_text \in StitchDocs
    /\ max_size = SLM_BATCH_SIZE
    /\ sections = <<>>
    /\ section = Idle /\ enriched_section = Idle
    /\ global_defs = EmptyDict
    /\ healed_sections = <<>>
    /\ healed_text = <<>>
    /\ footnotes = <<>>
    /\ registry = EmptyDict
    /\ todo = <<>>
    /\ unique_footnotes = <<>>
    /\ LaterIdle

\* step 1: pre-extract the global footnote definitions
Step1PreExtract ==
    /\ pc = "step1"
    /\ global_defs' = _extract_global_footnote_defs(raw_text)
    /\ pc' = "step2"
    /\ UNCHANGED <<section, enriched_section>>
    /\ UNCHANGED batchVars
    /\ UNCHANGED stitchVars
    /\ UNCHANGED laterVars

\* step 3, one turn of the loop: inject the appendix, call the SLM, keep
\* its stripped answer
Step3Invoke ==
    /\ pc = "batched"
    /\ Len(healed_sections) < Len(sections)
    /\ section' = sections[Len(healed_sections) + 1]
    /\ enriched_section' = _inject_footnote_appendix(section', global_defs)
    /\ \E response \in Responses(MaxPieces - PiecesIn(Concat(healed_sections))) :
          healed_sections' = Append(healed_sections, Strip(response))
    /\ UNCHANGED <<pc, global_defs, healed_text, footnotes, registry, todo,
                   unique_footnotes>>
    /\ UNCHANGED batchVars
    /\ UNCHANGED laterVars

\* the join of step 3 and step 4: extract the annotations and fold them
Step4Fold ==
    /\ pc = "batched"
    /\ Len(healed_sections) = Len(sections)
    /\ healed_text' = JoinWith(<<"\n", "\n">>, healed_sections)
    /\ footnotes' = FindFootnotes(healed_text', 1)
    /\ registry' = Fold(footnotes', EmptyDict)
    /\ todo' = global_defs.keys
    /\ pc' = "step5"
    /\ UNCHANGED <<section, enriched_section, global_defs, healed_sections,
                   unique_footnotes>>
    /\ UNCHANGED batchVars
    /\ UNCHANGED laterVars

\* step 5, one turn of the loop over global_defs.items()
Step5Backfill ==
    /\ pc = "step5"
    /\ todo # <<>>
    /\ LET r == BackfillOne(registry, healed_text, Head(todo),
                            global_defs.val[Head(todo)])
       IN  /\ registry' = r.registry
           /\ healed_text' = r.healed_text
    /\ todo' = Tail(todo)
    /\ UNCHANGED <<pc, section, enriched_section, global_defs, healed_sections,
                   footnotes, unique_footnotes>>
    /\ UNCHANGED batchVars
    /\ UNCHANGED laterVars

\* the sort and the return
StitchReturn ==
    /\ pc = "step5"
    /\ todo = <<>>
    /\ unique_footnotes' = sorted_registry_values(registry)
    /\ pc' = "stitched"
    /\ UNCHANGED <<section, enriched_section, global_defs, healed_sections,
                   healed_text, footnotes, registry, todo>>
    /\ UNCHANGED batchVars
    /\ UNCHANGED laterVars

NextStitch ==
    \/ Step1PreExtract
    \/ Step2Batching
    \/ Step3Invoke
    \/ Step4Fold
    \/ Step5Backfill
    \/ StitchReturn

SpecStitch == InitStitch /\ [][NextStitch]_vars

-----------------------------------------------------------------------------
(* Properties of the stitcher *)

Stitched == pc = "stitched"

\* the markers of the ground truth
GroundTruthMarkers == DOMAIN global_defs.val

\* the positions of the extracted occurrences of marker m
Occurrences(m) == {i \in DOMAIN footnotes : footnotes[i].marker = m}

\* a text that holds "MISSING" in any case
SentinelFlagged(text) ==
    \E i \in DOMAIN text : text[i] \in {"MISSING", "missing"}

\* the occurrences of marker m that are not sentinels
Usable(m) == {i \in Occurrences(m) : ~SentinelFlagged(footnotes[i].text)}

\* the record of marker m in the returned registry
RecordOf(m) ==
    unique_footnotes[CHOOSE i \in DOMAIN unique_footnotes :
                        unique_footnotes[i].marker = m]

\* C1: after the fold and the backfill, every marker of the ground-truth
\* mapping is the marker of some record of the final registry.
C1_NoGroundTruthDropped ==
    Stitched =>
        \A m \in GroundTruthMarkers :
            \E i \in DOMAIN unique_footnotes : unique_footnotes[i].marker = m

\* the SLM wrote annotations, none of them for some ground-truth marker
C1_Witness ==
    /\ Stitched
    /\ footnotes # <<>>
    /\ \E m \in GroundTruthMarkers :
          /\ Occurrences(m) = {}
          /\ \E i \in DOMAIN unique_footnotes : unique_footnotes[i].marker = m

\* C2: the final status of a ground-truth marker is "backfilled" if and
\* only if the rewriting output for it (the winner of the fold: its
\* longest annotation that is not a sentinel, if any) was absent, a
\* sentinel, or strictly shorter than 60% of the ground-truth text;
\* otherwise it is "linked".
C2_BackfilledIff ==
    Stitched =>
        \A m \in GroundTruthMarkers :
            LET absent == Occurrences(m) = {}
                sentinel == Occurrences(m) # {} /\ Usable(m) = {}
                truncated ==
                    /\ Usable(m) # {}
                    /\ \A i \in Usable(m) :
                          10 * TextLen(footnotes[i].text)
                              < 6 * TextLen(global_defs.val[m])
            IN  /\ \E i \in DOMAIN unique_footnotes :
                      unique_footnotes[i].marker = m
                /\ RecordOf(m).status =
                      (IF absent \/ sentinel \/ truncated
                       THEN "backfilled" ELSE "linked")

\* one ground-truth marker backfilled for a truncated annotation, another
\* linked with an annotation of exactly 60% of its definition
C2_Witness ==
    /\ Stitched
    /\ \E m, n \in GroundTruthMarkers :
          /\ Usable(m) # {}
          /\ RecordOf(m).status = "backfilled"
          /\ RecordOf(n).status = "linked"
          /\ 10 * TextLen(RecordOf(n).text) = 6 * TextLen(global_defs.val[n])

\* the orders a list can be put in
Orderings(list) ==
    LET n == Len(list)
    IN  { [i \in 1..n |-> list[f[i]]] :
            f \in {g \in [1..n -> 1..n] : \A i, j \in 1..n : g[i] = g[j] => i = j} }

RECURSIVE BackfillAll(_, _, _)
\* the whole loop of step 5 on a registry
BackfillAll(keys, reg, healed) ==
    IF keys = <<>> THEN reg
    ELSE BackfillAll(Tail(keys),
                     BackfillOne(reg, healed, Head(keys),
                                 global_defs.val[Head(keys)]).registry,
                     healed)

\* the final registry the occurrences give when folded in the given order
FinalOf(fns) ==
    sorted_registry_values(
        BackfillAll(global_defs.keys, Fold(fns, EmptyDict), <<>>))

\* the occurrences that decide marker m carry one text: its longest
\* non-sentinel occurrences or, when all are sentinels, all of them
NoTie(m) ==
    LET longest == {i \in Usable(m) :
                        \A j \in Usable(m) :
                            TextLen(footnotes[j].text) <= TextLen(footnotes[i].text)}
        deciding == IF Usable(m) # {} THEN longest ELSE Occurrences(m)
    IN  \A i, j \in deciding : footnotes[i].text = footnotes[j].text

\* C3 as stated: folding the extracted occurrences in any order yields
\* the same registry, and so the same final registry after the backfill.
C3_FoldOrderIndependent ==
    Stitched =>
        \A perm \in Orderings(footnotes) :
            /\ Fold(perm, EmptyDict).val = Fold(footnotes, EmptyDict).val
            /\ FinalOf(perm) = unique_footnotes

\* C3 amended: in any order the fold yields the same markers and, for
\* each marker, a winner of the same kind (a sentinel exactly when every
\* occurrence is one) and, when it is not a sentinel, of the same length;
\* the winning text is the same when the deciding occurrences carry one
\* text.  The final registry has the same markers and statuses in any
\* order, and the same record for every marker that is backfilled or has
\* no tie.
C3_FoldOrderIndependentUpToTies ==
    Stitched =>
        \A perm \in Orderings(footnotes) :
            LET a == Fold(footnotes, EmptyDict).val
                b == Fold(perm, EmptyDict).val
                final == FinalOf(perm)
            IN  /\ DOMAIN a = DOMAIN b
                /\ \A m \in DOMAIN a :
                      /\ a[m].status = b[m].status
                      /\ SentinelFlagged(a[m].text) = SentinelFlagged(b[m].text)
                      /\ SentinelFlagged(a[m].text) <=> Usable(m) = {}
                      /\ ~SentinelFlagged(a[m].text) =>
                            TextLen(a[m].text) = TextLen(b[m].text)
                      /\ NoTie(m) => a[m] = b[m]
                /\ Len(final) = Len(unique_footnotes)
                /\ \A i \in DOMAIN final :
                      /\ final[i].marker = unique_footnotes[i].marker
                      /\ final[i].status = unique_footnotes[i].status
                      /\ \/ final[i] = unique_footnotes[i]
                         \/ /\ final[i].status = "linked"
                            /\ ~NoTie(final[i].marker)

\* two occurrences of one marker whose order decides the final registry
C3_Witness ==
    /\ Stitched
    /\ \E perm \in Orderings(footnotes) : FinalOf(perm) # unique_footnotes
    /\ \E m \in GroundTruthMarkers : Cardinality(Occurrences(m)) >= 2

\* C4: when the backfill finds the registry entry of a ground-truth
\* marker to be a sentinel, no inline annotation of that marker in the
\* returned enriched text still carries sentinel text.
C4_SentinelAnnotationsRewritten ==
    Stitched =>
        LET folded == Fold(footnotes, EmptyDict)
            left == FindFootnotes(healed_text, 1)
        IN  \A m \in GroundTruthMarkers :
                (DictHas(folded, m) /\ SentinelFlagged(folded.val[m].text)) =>
                    \A i \in DOMAIN left :
                        left[i].marker = m => ~SentinelFlagged(left[i].text)

\* C5: the returned registry holds exactly one record per marker, in
\* strictly ascending marker order.
C5_OneRecordPerMarkerAscending ==
    Stitched =>
        \A i, j \in DOMAIN unique_footnotes :
            i < j => unique_footnotes[i].marker < unique_footnotes[j].marker

\* markers met in descending order and one of them more than once
C5_Witness ==
    /\ Stitched
    /\ Len(unique_footnotes) >= 2
    /\ \E i, j \in DOMAIN registry.keys :
          i < j /\ registry.keys[i] > registry.keys[j]
    /\ \E m \in DOMAIN registry.val : Cardinality(Occurrences(m)) >= 2


\* the markers of the annotations extracted from the healed text
ExtractedMarkers == { footnotes[i].marker : i \in DOMAIN footnotes }

\* the markers of the returned registry
RegistryMarkers == { unique_footnotes[i].marker : i \in DOMAIN unique_footnotes }

\* C19: the markers of the returned registry are exactly the markers of
\* the extracted annotations together with those of the ground-truth
\* mapping; a marker with neither has no record.
C19_RegistryMarkersAreUnion ==
    Stitched => RegistryMarkers = ExtractedMarkers \cup GroundTruthMarkers

\* an annotation without a definition, a definition without an annotation
\* and a marker with neither
C19_Witness ==
    /\ Stitched
    /\ ExtractedMarkers \ GroundTruthMarkers # {}
    /\ GroundTruthMarkers \ ExtractedMarkers # {}
    /\ RegistryMarkers # {1, 2, 3}

-----------------------------------------------------------------------------
(* enriched_chunker *)
(*                                                                         *)
(* The texts of the chunker are made of lexemes that are either one       *)
(* character (" ", "\n", ".", ":", "}") or hold no whitespace, no full     *)
(* stop and no brace after their first character.  A piece of text the    *)
(* splitter handles is text[lo:hi], written <<lo, hi>>, with lo and hi     *)
(* counted in characters from 0 as Python slices are.                     *)

CHUNK_SIZE == 800
CHUNK_OVERLAP == 100

\* separators=["\n\n", "\n", ". ", " ", ""]
separators == << <<"\n", "\n">>, <<"\n">>, <<".", " ">>, <<" ">>, <<>> >>

\* the offset of the first character of lexeme i (of the end, for Len + 1)
OffsetOf(text, i) == TextLen(SubSeq(text, 1, i - 1))

\* every newline of the text becomes a space
protect_every_newline(text) ==
    [i \in DOMAIN text |-> IF text[i] = "\n" THEN " " ELSE text[i]]

RECURSIVE Protect(_, _, _)
\* re.sub(r"\{FOOTNOTE.*?\}", _protect, text, flags=re.DOTALL): inside every
\* span from "{FOOTNOTE" to the next "}", "\n" becomes " "
Protect(text, i, inside) ==
    IF i > Len(text) THEN <<>>
    ELSE LET opens == /\ ~inside
                      /\ text[i] = "{FOOTNOTE"
                      /\ \E j \in (i + 1)..Len(text) : text[j] = "}"
             within == inside \/ opens
         IN  <<IF within /\ text[i] = "\n" THEN " " ELSE text[i]>>
             \o Protect(text, i + 1, within /\ text[i] # "}")

protect(text) == Protect(text, 1, FALSE)

RECURSIVE SepStarts(_, _, _, _)
\* the offsets where re.split finds the separator in text[lo:hi], scanning
\* from lexeme i: leftmost matches that do not overlap
SepStarts(text, sep, i, hi) ==
    IF i + Len(sep) - 1 > Len(text) \/ OffsetOf(text, i + Len(sep)) > hi
    THEN <<>>
    ELSE IF SubSeq(text, i, i + Len(sep) - 1) = sep
    THEN <<OffsetOf(text, i)>> \o SepStarts(text, sep, i + Len(sep), hi)
    ELSE SepStarts(text, sep, i + 1, hi)

\* the lexeme that starts at offset p
LexemeAt(text, p) == CHOOSE i \in 1..(Len(text) + 1) : OffsetOf(text, i) = p

\* re.search(separator, text[lo:hi]) and the matches of re.split
Matches(text, sep, lo, hi) == SepStarts(text, sep, LexemeAt(text, lo), hi)

\* _split_text_with_regex(text[lo:hi], separator, keep_separator=True):
\* each separator stays at the start of the piece after it, and empty
\* pieces are dropped; list(text) for the separator ""
_split_text_with_regex(text, sep, lo, hi) ==
    IF sep = <<>> THEN [p \in 1..(hi - lo) |-> <<lo + p - 1, lo + p>>]
    ELSE LET cuts == Matches(text, sep, lo, hi)
             bounds == <<lo>> \o cuts \o <<hi>>
             pieces == [k \in 1..(Len(bounds) - 1) |-> <<bounds[k], bounds[k + 1]>>]
         IN  SelectSeq(pieces, LAMBDA s : s[1] < s[2])

\* the character at offset p is whitespace
IsSpaceAt(text, p) ==
    \E i \in DOMAIN text : OffsetOf(text, i) = p /\ IsSpace(text[i])

RECURSIVE LStrip(_, _, _)
LStrip(text, lo, hi) ==
    IF lo < hi /\ IsSpaceAt(text, lo) THEN LStrip(text, lo + 1, hi) ELSE lo

RECURSIVE RStrip(_, _, _)
RStrip(text, lo, hi) ==
    IF lo < hi /\ IsSpaceAt(text, hi - 1) THEN RStrip(text, lo, hi - 1) ELSE hi

\* _join_docs(docs, ""): the pieces from..to joined and stripped, or nothing
\* when that is empty
_join_docs(text, splits, from, to) ==
    IF from > to THEN <<>>
    ELSE LET lo == LStrip(text, splits[from][1], splits[to][2])
             hi == RStrip(text, lo, splits[to][2])
         IN  IF lo = hi THEN <<>> ELSE << <<lo, hi>> >>

\* the sum of the lengths of the pieces from..to (they are adjacent)
TotalOf(splits, from, to) ==
    IF from > to THEN 0 ELSE splits[to][2] - splits[from][1]

\* the least member of a set of numbers
Least(S) == CHOOSE x \in S : \A y \in S : x <= y

\* "while total > self._chunk_overlap or (total + _len > self._chunk_size
\* and total > 0)": pieces leave the front of current_doc until the
\* condition fails; the result is the first piece that stays
DropOverlap(splits, from, to, len) ==
    Least({ f \in from..(to + 1) :
              LET total == TotalOf(splits, f, to)
              IN  ~(total > CHUNK_OVERLAP
                    \/ (total + len > CHUNK_SIZE /\ total > 0)) })

RECURSIVE MergeLoop(_, _, _, _, _)
\* the loop of _merge_splits from piece i on; current_doc is the pieces
\* from..(i - 1).  The loop only appends until the first piece n that does
\* not fit, "total + _len > self._chunk_size", with current_doc not empty:
\* there it emits current_doc and drops the overlap
MergeLoop(text, splits, i, from, docs) ==
    LET full == { n \in i..Len(splits) :
                    /\ from <= n - 1
                    /\ TotalOf(splits, from, n - 1)
                       + (splits[n][2] - splits[n][1]) > CHUNK_SIZE }
    IN  IF full = {} THEN docs \o _join_docs(text, splits, from, Len(splits))
        ELSE LET n == Least(full)
             IN  MergeLoop(text, splits, n + 1,
                           DropOverlap(splits, from, n - 1,
                                       splits[n][2] - splits[n][1]),
                           docs \o _join_docs(text, splits, from, n - 1))

\* _merge_splits(splits, ""): keep_separator is set, so the pieces are
\* joined with nothing between them
_merge_splits(text, splits) == MergeLoop(text, splits, 1, 1, <<>>)

RECURSIVE _split_text(_, _, _, _)
RECURSIVE SplitLoop(_, _, _, _, _)

\* the loop of _split_text from piece i on: the pieces shorter than the
\* chunk size gather in _good_splits up to the first piece n that is not;
\* there they are merged, and piece n is split on the next separators
SplitLoop(text, splits, i, final_chunks, new_separators) ==
    LET big == { n \in i..Len(splits) :
                   ~(splits[n][2] - splits[n][1] < CHUNK_SIZE) }
        last == IF big = {} THEN Len(splits) ELSE Least(big) - 1
        flushed == final_chunks
                   \o (IF i <= last
                       THEN _merge_splits(text, SubSeq(splits, i, last))
                       ELSE <<>>)
    IN  IF big = {} THEN flushed
        ELSE SplitLoop(text, splits, last + 2,
                       flushed \o (IF new_separators = <<>>
                                   THEN <<splits[last + 1]>>
                                   ELSE _split_text(text, splits[last + 1][1],
                                                    splits[last + 1][2],
                                                    new_separators)),
                       new_separators)

\* RecursiveCharacterTextSplitter._split_text(text[lo:hi], seps): split on
\* the first separator found in the text, merge the small pieces, split the
\* big ones on the separators that follow
_split_text(text, lo, hi, seps) ==
    LET k == CHOOSE n \in DOMAIN seps :
                 /\ seps[n] = <<>> \/ Matches(text, seps[n], lo, hi) # <<>>
                 /\ \A j \in 1..(n - 1) :
                        seps[j] # <<>> /\ Matches(text, seps[j], lo, hi) = <<>>
        new_separators ==
            IF seps[k] = <<>> THEN <<>> ELSE SubSeq(seps, k + 1, Len(seps))
    IN  SplitLoop(text, _split_text_with_regex(text, seps[k], lo, hi), 1,
                  <<>>, new_separators)

\* splitter.split_text(text): the chunks, each the slice <<lo, hi>> of text
split_text(text) == _split_text(text, 0, TextLen(text), separators)

-----------------------------------------------------------------------------
(* Inputs of the chunker *)

\* an annotation with the given body
SpanOf(body) == <<"{FOOTNOTE", " ", "[1]", ":">> \o body \o <<"}">>

\* what a text is made of: words, sentences, paragraph and line breaks, and
\* annotations that are short, hold spaces, a sentence break or a line
\* break, or are longer than a chunk
Segments ==
    { <<"x*300", " ">>,
      <<"x*300", ".", " ">>,
      <<"x*900">>,
      <<"\n", "\n">>,
      <<"\n">>,
      SpanOf(<<" ", "x*20">>),
      SpanOf(<<" ", "x*100", ".", " ", "x*100">>),
      SpanOf(<<"\n", "x*100", "\n", "x*20">>),
      SpanOf(<<" ", "x*900">>) }

MaxSegments == 3

ChunkTexts ==
    { Concat(segs) : segs \in UNION { [1..n -> Segments] : n \in 0..MaxSegments } }

-----------------------------------------------------------------------------
(* Specification of the chunker *)

InitChunk ==
    /\ pc = "call_enriched_chunker"
    /\ enriched_text \in ChunkTexts
    /\ enriched_chunks = <<>>
    /\ protected = Idle
    /\ raw_text = Idle /\ max_size = SLM_BATCH_SIZE /\ sections = Idle
    /\ section = Idle /\ global_defs = Idle /\ enriched_section = Idle
    /\ healed_sections = Idle /\ healed_text = Idle /\ footnotes = Idle
    /\ registry = Idle /\ todo = Idle /\ unique_footnotes = Idle
    /\ RetrieveIdle /\ DiffIdle /\ CosineIdle /\ GraphIdle

\* a call enriched_chunker(state): the chunks are slices of the protected
\* text
EnrichedChunker ==
    /\ pc = "call_enriched_chunker"
    /\ enriched_chunks' = split_text(protect(enriched_text))
    /\ pc' = "chunked"
    /\ UNCHANGED <<enriched_text, protected, section, global_defs,
                   enriched_section>>
    /\ UNCHANGED <<batchVars, stitchVars>>
    /\ UNCHANGED <<retrieveVars, diffVars, cosineVars, graphVars>>

NextChunk == EnrichedChunker

SpecChunk == InitChunk /\ [][NextChunk]_vars

-----------------------------------------------------------------------------
(* Properties of the chunker *)

RECURSIVE SpansFrom(_, _)
\* the annotation spans {FOOTNOTE ...} of a text from lexeme i on, each the
\* slice <<lo, hi>> from its opening brace to its closing one
SpansFrom(text, i) ==
    IF i > Len(text) THEN {}
    ELSE LET closes == { j \in (i + 1)..Len(text) : text[j] = "}" }
         IN  IF text[i] = "{FOOTNOTE" /\ closes # {}
             THEN { <<OffsetOf(text, i), OffsetOf(text, Least(closes) + 1)>> }
                  \cup SpansFrom(text, Least(closes) + 1)
             ELSE SpansFrom(text, i + 1)

Spans(text) == SpansFrom(text, 1)

Chunked == pc = "chunked"

\* the offset b lies strictly inside the span
Inside(b, span) == span[1] < b /\ b < span[2]

\* C11: no chunk starts or ends strictly inside an annotation span, and
\* every annotation span lies wholly in at least one chunk
C11_NoBoundaryInsideSpan ==
    Chunked =>
        \A span \in Spans(protect(enriched_text)) :
            /\ \E k \in DOMAIN enriched_chunks :
                   /\ enriched_chunks[k][1] <= span[1]
                   /\ span[2] <= enriched_chunks[k][2]
            /\ \A k \in DOMAIN enriched_chunks :
                   /\ ~Inside(enriched_chunks[k][1], span)
                   /\ ~Inside(enriched_chunks[k][2], span)

-----------------------------------------------------------------------------
(* _multi_query_retrieve *)

TOP_K == 4

RETRIEVAL_QUERIES ==
    << "Financial performance, revenue, earnings, and profitability metrics",
       "Cash flow, capital expenditure, liquidity, and debt position",
       "Risks, challenges, regulatory issues, and compliance concerns",
       "Strategic outlook, forward guidance, and growth projections",
       "Operational highlights, market position, and competitive landscape" >>

\* the characters of a lexeme: the character a run repeats, or the lexeme
CharsOf(t) == IF t \in DOMAIN RunWidth THEN "x" ELSE t

RECURSIVE Slice(_, _, _)
\* text[:n] as runs <<characters, how many of them>>, appended to out;
\* adjacent runs of one character are one run
Slice(text, n, out) ==
    IF n <= 0 \/ text = <<>> THEN out
    ELSE LET t == Head(text)
             w == IF Width(t) <= n THEN Width(t) ELSE n
             last == IF out = <<>> THEN <<"", 0>> ELSE out[Len(out)]
         IN  IF t \in DOMAIN RunWidth /\ last[1] = CharsOf(t)
             THEN Slice(Tail(text), n - w,
                        [out EXCEPT ![Len(out)] = <<last[1], last[2] + w>>])
             ELSE Slice(Tail(text), n - w, Append(out, <<CharsOf(t), w>>))

\* key = doc.page_content[:200]
Key(doc) == Slice(doc.page_content, 200, <<>>)

RECURSIVE KeepLast(_, _, _)
\* the inner loop, were a later document to replace the one kept for its key
KeepLast(docs, keys, list) ==
    IF docs = <<>> THEN [seen |-> keys, results |-> list]
    ELSE LET doc == Head(docs)
         IN  KeepLast(Tail(docs), keys \cup {Key(doc)},
                      Append(SelectSeq(list, LAMBDA r : Key(r) # Key(doc)), doc))

\* the inner loop, were it to append every document
AppendAll(docs, keys, list) ==
    [seen |-> keys \cup { Key(docs[i]) : i \in DOMAIN docs },
     results |-> list \o docs]

RECURSIVE Dedup(_, _, _)
\* the inner loop: "if key not in seen: seen.add(key); results.append(doc)"
Dedup(docs, keys, list) ==
    IF docs = <<>> THEN [seen |-> keys, results |-> list]
    ELSE LET doc == Head(docs)
         IN  IF Key(doc) \notin keys
             THEN Dedup(Tail(docs), keys \cup {Key(doc)}, Append(list, doc))
             ELSE Dedup(Tail(docs), keys, list)

-----------------------------------------------------------------------------
(* Inputs of _multi_query_retrieve *)

\* the chunks a store may hold: two that share their first 200 characters
\* and differ after them, one that is a proper prefix of these 200
\* characters, and one that differs from the start
StoreDocs ==
    { [id |-> 1, page_content |-> <<"Revenue", " ", "x*300">>],
      [id |-> 2, page_content |-> <<"Revenue", " ", "x*100", "x*100", ".", " ", "x*20">>],
      [id |-> 3, page_content |-> <<"Revenue", " ", "x*100">>],
      [id |-> 4, page_content |-> <<"Cash", " ", "x*300">>] }

MaxStore == 3

Stores == { S \in SUBSET StoreDocs : Cardinality(S) <= MaxStore }

Min(a, b) == IF a <= b THEN a ELSE b

\* vectorstore.similarity_search(query, k): the k documents nearest to the
\* query, nearest first (all of them when the store holds fewer); which
\* they are is the embedding service's doing
SimilaritySearch(store, k) ==
    { hits \in [1..Min(k, Cardinality(store)) -> store] :
        \A i, j \in DOMAIN hits : i # j => hits[i] # hits[j] }

-----------------------------------------------------------------------------
(* Specification of _multi_query_retrieve *)

InitRetrieve ==
    /\ pc = "call_multi_query_retrieve"
    /\ vectorstore \in Stores
    /\ k_per_query \in {1, 2, TOP_K}
    /\ calls = <<>>
    /\ retrieved = <<>>
    /\ seen = {}
    /\ results = <<>>
    /\ raw_text = Idle /\ max_size = SLM_BATCH_SIZE /\ sections = Idle
    /\ section = Idle /\ global_defs = Idle /\ enriched_section = Idle
    /\ healed_sections = Idle /\ healed_text = Idle /\ footnotes = Idle
    /\ registry = Idle /\ todo = Idle /\ unique_footnotes = Idle
    /\ ChunkIdle /\ DiffIdle /\ CosineIdle /\ GraphIdle

\* one turn of "for query in RETRIEVAL_QUERIES": the call of
\* similarity_search and the loop over what it returns
RetrieveQuery ==
    /\ pc = "call_multi_query_retrieve"
    /\ Len(calls) < Len(RETRIEVAL_QUERIES)
    /\ calls' = Append(calls, RETRIEVAL_QUERIES[Len(calls) + 1])
    /\ \E hits \in SimilaritySearch(vectorstore, k_per_query) :
         /\ retrieved' = Append(retrieved, hits)
         /\ LET d == Dedup(hits, seen, results)
            IN  seen' = d.seen /\ results' = d.results
    /\ UNCHANGED <<pc, vectorstore, k_per_query>>
    /\ UNCHANGED <<section, global_defs, enriched_section>>
    /\ UNCHANGED <<batchVars, stitchVars>>
    /\ UNCHANGED <<chunkVars, diffVars, cosineVars, graphVars>>

\* "return results"
RetrieveReturn ==
    /\ pc = "call_multi_query_retrieve"
    /\ Len(calls) = Len(RETRIEVAL_QUERIES)
    /\ pc' = "retrieved"
    /\ UNCHANGED retrieveVars
    /\ UNCHANGED <<section, global_defs, enriched_section>>
    /\ UNCHANGED <<batchVars, stitchVars>>
    /\ UNCHANGED <<chunkVars, diffVars, cosineVars, graphVars>>

NextRetrieve == RetrieveQuery \/ RetrieveReturn

SpecRetrieve == InitRetrieve /\ [][NextRetrieve]_vars

-----------------------------------------------------------------------------
(* Properties of _multi_query_retrieve *)

Retrieved == pc = "retrieved"

\* C12: the returned list holds no two items whose first 200 characters of
\* content are identical
C12_NoSharedPrefix ==
    Retrieved =>
        \A i, j \in DOMAIN results :
            i # j => Key(results[i]) # Key(results[j])

\* two documents that differ after their first 200 characters were both
\* retrieved, and one of them was returned
C12_Witness ==
    /\ Retrieved
    /\ \E i, j \in DOMAIN Concat(retrieved) :
          /\ Concat(retrieved)[i].page_content # Concat(retrieved)[j].page_content
          /\ Key(Concat(retrieved)[i]) = Key(Concat(retrieved)[j])
    /\ Len(results) >= 2

\* the place in the retrieval order (earliest query, then earliest rank) of
\* the first item that has this key
FirstWith(key) ==
    Least({ i \in DOMAIN Concat(retrieved) : Key(Concat(retrieved)[i]) = key })

\* C13: one retrieval call per query, in the configured order; the item
\* kept for each distinct 200-character prefix is the first retrieved item
\* with that prefix, and the kept items are in the order in which those
\* first occurrences were retrieved
C13_FirstOccurrenceOrder ==
    /\ pc = "call_multi_query_retrieve" =>
          /\ Len(calls) <= Len(RETRIEVAL_QUERIES)
          /\ calls = SubSeq(RETRIEVAL_QUERIES, 1, Len(calls))
          /\ Len(retrieved) = Len(calls)
    /\ Retrieved =>
          /\ calls = RETRIEVAL_QUERIES
          /\ { Key(d) : d \in { Concat(retrieved)[i] : i \in DOMAIN Concat(retrieved) } }
             = { Key(results[n]) : n \in DOMAIN results }
          /\ \A n \in DOMAIN results :
                results[n] = Concat(retrieved)[FirstWith(Key(results[n]))]
          /\ \A m, n \in DOMAIN results :
                m < n => FirstWith(Key(results[m])) < FirstWith(Key(results[n]))

\* a later query retrieved, ahead of a document with a new prefix, a
\* document sharing its prefix with a different document of the first query
C13_Witness ==
    /\ Retrieved
    /\ \E q \in DOMAIN retrieved :
          /\ q > 1 /\ Len(retrieved[q]) >= 2
          /\ \E d \in { retrieved[1][i] : i \in DOMAIN retrieved[1] } :
                /\ Key(d) = Key(retrieved[q][1])
                /\ d # retrieved[q][1]
          /\ \A p \in 1..(q - 1) : \A i \in DOMAIN retrieved[p] :
                Key(retrieved[p][i]) # Key(retrieved[q][2])

-----------------------------------------------------------------------------
(* _cosine_similarity and _compute_semantic_diff *)
(*                                                                         *)
(* Vectors have integer components.  A similarity is kept exactly, as the *)
(* number num / sqrt(den2); the floating-point value the program computes *)
(* lies on the same side of the threshold, since no vector of the model   *)
(* has a similarity within rounding distance of 0.82.                     *)

RECURSIVE SumProducts(_, _)
\* sum(x * y for x, y in zip(a, b)): zip stops at the shorter vector
SumProducts(a, b) ==
    IF a = <<>> \/ b = <<>> THEN 0
    ELSE Head(a) * Head(b) + SumProducts(Tail(a), Tail(b))

\* the float 0.0
Zero == [raises |-> "", num |-> 0, den2 |-> 1]

\* dot / (mag_a * mag_b) with mag_a = sqrt(aa) and mag_b = sqrt(bb); a
\* division by zero raises
Divide(dot, aa, bb) ==
    IF aa * bb = 0 THEN [raises |-> "ZeroDivisionError", num |-> 0, den2 |-> 0]
    ELSE IF dot = 0 THEN Zero
    ELSE [raises |-> "", num |-> dot, den2 |-> aa * bb]

\* the function without its test of the magnitudes
cosine_unguarded(a, b) ==
    Divide(SumProducts(a, b), SumProducts(a, a), SumProducts(b, b))

\* _cosine_similarity(a, b)
_cosine_similarity(a, b) ==
    LET dot == SumProducts(a, b)
        aa == SumProducts(a, a)
        bb == SumProducts(b, b)
    IN  IF aa = 0 \/ bb = 0 THEN Zero ELSE Divide(dot, aa, bb)

\* threshold: float = 0.82, as num / den
threshold == [num |-> 82, den |-> 100]

\* t * |t|, which orders numbers as t does
SignedSquare(t) == IF t < 0 THEN 0 - t * t ELSE t * t

\* x <= y for two similarities
SimLeq(x, y) ==
    SignedSquare(x.num) * y.den2 <= SignedSquare(y.num) * x.den2

\* x < th for a similarity and a threshold
SimBelow(x, th) ==
    SignedSquare(x.num) * th.den * th.den
        < SignedSquare(th.num) * x.den2

\* _max_sim, were an empty target list to give 1.0
max_sim_empty_is_one(vec, targets) ==
    IF targets = <<>> THEN [raises |-> "", num |-> 1, den2 |-> 1]
    ELSE LET sims == { _cosine_similarity(vec, targets[j]) : j \in DOMAIN targets }
         IN  CHOOSE x \in sims : \A y \in sims : SimLeq(y, x)

\* the similarity to the first target only
sim_to_first_target(vec, targets) ==
    IF targets = <<>> THEN Zero ELSE _cosine_similarity(vec, targets[1])

\* _max_sim(vec, targets)
_max_sim(vec, targets) ==
    IF targets = <<>> THEN Zero
    ELSE LET sims == { _cosine_similarity(vec, targets[j]) : j \in DOMAIN targets }
         IN  CHOOSE x \in sims : \A y \in sims : SimLeq(y, x)

\* _compute_semantic_diff(sentences_a, sentences_b, embeddings_model,
\* threshold); embed is what embed_documents gives for each text
_compute_semantic_diff(a, b, embed, th) ==
    LET all_texts == a \o b
        vecs == [i \in DOMAIN all_texts |-> embed[all_texts[i]]]
        vecs_a == SubSeq(vecs, 1, Len(a))
        vecs_b == SubSeq(vecs, Len(a) + 1, Len(vecs))
    IN  IF all_texts = <<>> THEN [novel_a |-> <<>>, novel_b |-> <<>>]
        ELSE [novel_a |-> [i \in DOMAIN vecs_a |->
                             SimBelow(_max_sim(vecs_a[i], vecs_b), th)],
              novel_b |-> [i \in DOMAIN vecs_b |->
                             SimBelow(_max_sim(vecs_b[i], vecs_a), th)]]

-----------------------------------------------------------------------------
(* Inputs of _cosine_similarity and _compute_semantic_diff *)

\* the components of the vectors
Components == {0 - 1, 0, 1, 2}

MaxDim == 2

\* the vectors of up to MaxDim components, the empty vector among them
Vectors == UNION { [1..n -> Components] : n \in 0..MaxDim }

\* what the embedding service returns: vectors of one dimension, some
\* nearer to each other than the threshold and some not, and the zero vector
Embeddings == { <<0, 0>>, <<1, 0>>, <<1, 1>>, <<2, 1>>, <<0 - 1, 2>> }

Sentences == {"Revenue grew 5%.", "Margins are unaudited.", "Debt fell."}

MaxSentences == 2

SentenceLists == UNION { [1..n -> Sentences] : n \in 0..MaxSentences }

-----------------------------------------------------------------------------
(* Specifications of _cosine_similarity and _compute_semantic_diff *)

InitCosine ==
    /\ pc = "call_cosine_similarity"
    /\ vec_a \in Vectors
    /\ vec_b \in Vectors
    /\ similarity = Idle
    /\ raw_text = Idle /\ max_size = SLM_BATCH_SIZE /\ sections = Idle
    /\ section = Idle /\ global_defs = Idle /\ enriched_section = Idle
    /\ healed_sections = Idle /\ healed_text = Idle /\ footnotes = Idle
    /\ registry = Idle /\ todo = Idle /\ unique_footnotes = Idle
    /\ ChunkIdle /\ RetrieveIdle /\ DiffIdle /\ GraphIdle

\* a call _cosine_similarity(vec_a, vec_b)
CallCosineSimilarity ==
    /\ pc = "call_cosine_similarity"
    /\ similarity' = _cosine_similarity(vec_a, vec_b)
    /\ pc' = "cosine_returned"
    /\ UNCHANGED <<vec_a, vec_b>>
    /\ UNCHANGED <<section, global_defs, enriched_section>>
    /\ UNCHANGED <<batchVars, stitchVars>>
    /\ UNCHANGED <<chunkVars, retrieveVars, diffVars, graphVars>>

NextCosine == CallCosineSimilarity

SpecCosine == InitCosine /\ [][NextCosine]_vars

InitDiff ==
    /\ pc = "call_compute_semantic_diff"
    /\ sentences_a \in SentenceLists
    /\ sentences_b \in SentenceLists
    /\ embedding \in [Sentences -> Embeddings]
    /\ novel_a = Idle /\ novel_b = Idle
    /\ raw_text = Idle /\ max_size = SLM_BATCH_SIZE /\ sections = Idle
    /\ section = Idle /\ global_defs = Idle /\ enriched_section = Idle
    /\ healed_sections = Idle /\ healed_text = Idle /\ footnotes = Idle
    /\ registry = Idle /\ todo = Idle /\ unique_footnotes = Idle
    /\ ChunkIdle /\ RetrieveIdle /\ CosineIdle /\ GraphIdle

\* a call _compute_semantic_diff(sentences_a, sentences_b, embeddings_model)
CallComputeSemanticDiff ==
    /\ pc = "call_compute_semantic_diff"
    /\ LET r == _compute_semantic_diff(sentences_a, sentences_b, embedding,
                                       threshold)
       IN  novel_a' = r.novel_a /\ novel_b' = r.novel_b
    /\ pc' = "diff_returned"
    /\ UNCHANGED <<sentences_a, sentences_b, embedding>>
    /\ UNCHANGED <<section, global_defs, enriched_section>>
    /\ UNCHANGED <<batchVars, stitchVars>>
    /\ UNCHANGED <<chunkVars, retrieveVars, cosineVars, graphVars>>

NextDiff == CallComputeSemanticDiff

SpecDiff == InitDiff /\ [][NextDiff]_vars

-----------------------------------------------------------------------------
(* Properties of _cosine_similarity and _compute_semantic_diff *)

DiffReturned == pc = "diff_returned"

\* the vectors of the sentences of a list
VecsOf(list) == [i \in DOMAIN list |-> embedding[list[i]]]

\* no vector of the other side is as similar to vec as the threshold asks:
\* the greatest similarity is below the threshold, 0.0 standing for it when
\* the other side is empty
NovelAgainst(vec, others) ==
    \A j \in DOMAIN others :
        SimBelow(_cosine_similarity(vec, others[j]), threshold)

\* C14: the two masks are as long as A and B; entry i of A's mask is true
\* exactly when the greatest cosine similarity of A's i-th embedding against
\* B's embeddings is strictly below the threshold (every sentence of A is
\* novel when B is empty); B's mask likewise against A
C14_NovelMasks ==
    DiffReturned =>
        /\ Len(novel_a) = Len(sentences_a)
        /\ Len(novel_b) = Len(sentences_b)
        /\ \A i \in DOMAIN sentences_a :
              novel_a[i] <=> NovelAgainst(VecsOf(sentences_a)[i], VecsOf(sentences_b))
        /\ \A i \in DOMAIN sentences_b :
              novel_b[i] <=> NovelAgainst(VecsOf(sentences_b)[i], VecsOf(sentences_a))
        /\ sentences_b = <<>> => \A i \in DOMAIN novel_a : novel_a[i]
        /\ sentences_a = <<>> => \A i \in DOMAIN novel_b : novel_b[i]

\* A has a novel sentence and a shared one, and so has B; the shared ones
\* are different sentences with embeddings that are not the same
C14_Witness ==
    /\ DiffReturned
    /\ \E i, j \in DOMAIN novel_a : novel_a[i] /\ ~novel_a[j]
    /\ \E i, j \in DOMAIN novel_b : novel_b[i] /\ ~novel_b[j]
    /\ \E i \in DOMAIN novel_a :
          /\ ~novel_a[i]
          /\ \A k \in DOMAIN sentences_b :
                embedding[sentences_b[k]] # embedding[sentences_a[i]]

CosineReturned == pc = "cosine_returned"

\* a vector of zero magnitude: it has no component other than zero
ZeroMagnitude(v) == \A i \in DOMAIN v : v[i] = 0

\* C15: _cosine_similarity returns 0.0, and raises no division error, when
\* either vector has zero magnitude, the empty vector included
C15_ZeroMagnitudeGivesZero ==
    CosineReturned =>
        /\ similarity.raises = ""
        /\ (ZeroMagnitude(vec_a) \/ ZeroMagnitude(vec_b)) => similarity = Zero

\* the empty vector against a vector that is not zero
C15_Witness ==
    /\ CosineReturned
    /\ vec_a = <<>>
    /\ ~ZeroMagnitude(vec_b)
    /\ similarity = Zero

-----------------------------------------------------------------------------
(* The compiled graph: workflow and its nodes *)
(*                                                                         *)
(* pc is the position inside the node under way.  The run of              *)
(* slm_footnote_stitcher is made of the actions of the stitcher above,    *)
(* with the call of the SLM and its return apart.                         *)

\* workflow.add_node(...)
Nodes ==
    << "load_document", "naive_chunker", "slm_footnote_stitcher",
       "enriched_chunker", "summarize_raw", "summarize_enriched",
       "generate_report", "generate_audit" >>

NodeSet == { Nodes[i] : i \in DOMAIN Nodes }

\* workflow.add_edge(...)
Edges ==
    { <<"START", "load_document">>,
      <<"load_document", "naive_chunker">>,
      <<"naive_chunker", "slm_footnote_stitcher">>,
      <<"slm_footnote_stitcher", "enriched_chunker">>,
      <<"enriched_chunker", "summarize_raw">>,
      <<"summarize_raw", "summarize_enriched">>,
      <<"summarize_enriched", "generate_report">>,
      <<"generate_report", "generate_audit">>,
      <<"generate_audit", "END">> }

\* the node the compiled graph runs once n has returned
Successor(n) == CHOOSE m \in NodeSet \cup {"END"} : <<n, m>> \in Edges

\* load_document, were it to go on without the file
load_document_unchecked(exists, content) ==
    [raises |-> "", raw_text |-> content]

\* load_document: "if not file_path.exists(): raise FileNotFoundError"
load_document(exists, content) ==
    IF ~exists THEN [raises |-> "FileNotFoundError", raw_text |-> <<>>]
    ELSE [raises |-> "", raw_text |-> content]

RECURSIVE Explode(_)
\* the text in the lexemes of the chunker: a page marker is a word, a
\* space and a word
Explode(text) ==
    IF text = <<>> THEN <<>>
    ELSE (IF IsPageMarker(Head(text)) THEN <<"Page", " ", "k/9">>
          ELSE <<Head(text)>>) \o Explode(Tail(text))

\* "(no enriched summary — no chunks available)"
NoChunksSummary == <<"(no enriched summary - no chunks available)">>

\* the chunks, were summarize_enriched to take the raw ones whenever there
\* are any
ChunksOfRawFirst(n) ==
    IF n = "summarize_enriched" /\ raw_chunks = <<>>
    THEN enriched_chunks
    ELSE raw_chunks

\* chunks = state["enriched_chunks"] if state["enriched_chunks"] else
\* state["raw_chunks"]
ChunksOf(n) ==
    IF n = "summarize_enriched" /\ enriched_chunks # <<>>
    THEN enriched_chunks
    ELSE raw_chunks

-----------------------------------------------------------------------------
(* Inputs of the graph *)

\* the documents: empty, blank, one page with a footnote, two batches
GraphDocs ==
    { <<>>,
      <<"\n">>,
      <<"Revenue", " ", "grew", "[1]", ".", "\n", "[1]", " ", "Unaudited", ".">>,
      <<"x*5000", "\n", "Page 1/9", "\n", "x*5000", "\n", "Page 2/9">> }

\* what the SLM may answer
GraphResponses ==
    { <<>>,
      <<"Revenue", " ", "grew", " ", "{FOOTNOTE", " ", "[1]", ":", " ",
        "Unaudited", ".", "}", ".">>,
      <<"Revenue", " ", "grew", " ", "{FOOTNOTE", " ", "[1]", ":", " ",
        "MISSING", "}", ".">> }

\* what the LLM may answer
Summaries == { <<>>, <<" ", "Revenue", " ", "grew", ".", "\n">> }

-----------------------------------------------------------------------------
(* Specification of the graph *)

Running == status = "running"

\* the node under way starts
Started(n) == [executed EXCEPT !.started[n] = @ + 1]

\* the node under way returns
Finished(ex, n) == [ex EXCEPT !.finished[n] = @ + 1]

\* the dictionary a node returns, as far as the registry goes, were every
\* node to hand back the registry it was given
UpdateEchoingRegistry(n) ==
    [footnotes_registry |->
        IF n = "slm_footnote_stitcher" THEN unique_footnotes
        ELSE footnotes_registry]

\* the dictionary a node returns, as far as the registry goes: only
\* slm_footnote_stitcher returns the key "footnotes_registry"
Update(n) ==
    IF n = "slm_footnote_stitcher"
    THEN [footnotes_registry |-> unique_footnotes]
    ELSE <<>>

\* footnotes_registry: Annotated[List[dict], operator.add]: a returned
\* registry is appended to the one of the state
Reduce(update) ==
    IF "footnotes_registry" \in DOMAIN update
    THEN footnotes_registry \o update.footnotes_registry
    ELSE footnotes_registry

\* state.update(result) of _rerender: a returned registry replaces the one
\* of the state
DictUpdate(held, update) ==
    IF "footnotes_registry" \in DOMAIN update
    THEN update.footnotes_registry
    ELSE held

\* the node under way has returned: its dictionary is merged into the
\* state and the graph goes on to the next node
Advance ==
    /\ footnotes_registry' = Reduce(Update(node))
    /\ node' = Successor(node)
    /\ pc' = "start"
    /\ status' = IF Successor(node) = "END" THEN "END" ELSE status

\* an outside service is called
Call(service) ==
    /\ in_flight' = in_flight + 1
    /\ calls' = Append(calls, service)

InitGraph ==
    /\ pc = "start"
    /\ node = "START"
    /\ status = "running"
    /\ source_exists \in BOOLEAN
    /\ executed = [started |-> [n \in NodeSet |-> 0],
                   finished |-> [n \in NodeSet |-> 0]]
    /\ in_flight = 0
    /\ calls = <<>>
    /\ raw_text = <<>>
    /\ enriched_text = <<>>
    /\ footnotes_registry = <<>>
    /\ raw_chunks = <<>>
    /\ enriched_chunks = <<>>
    /\ protected = Idle
    /\ raw_summary = <<>>
    /\ enriched_summary = <<>>
    /\ max_size = SLM_BATCH_SIZE
    /\ sections = <<>>
    /\ section = Idle /\ enriched_section = Idle
    /\ global_defs = EmptyDict
    /\ healed_sections = <<>> /\ healed_text = <<>> /\ footnotes = <<>>
    /\ registry = EmptyDict /\ todo = <<>> /\ unique_footnotes = <<>>
    /\ vectorstore = Idle /\ k_per_query = TOP_K /\ retrieved = Idle
    /\ seen = {} /\ results = Idle
    /\ DiffIdle /\ CosineIdle

\* app.invoke(initial_state)
GraphStart ==
    /\ node = "START" /\ Running
    /\ node' = Successor("START")
    /\ UNCHANGED <<pc, status, source_exists, executed, in_flight, raw_chunks,
                   footnotes_registry, raw_summary, enriched_summary>>
    /\ UNCHANGED <<section, global_defs, enriched_section>>
    /\ UNCHANGED <<batchVars, stitchVars>>
    /\ UNCHANGED <<chunkVars, retrieveVars, diffVars, cosineVars>>

\* the node load_document
LoadDocument ==
    /\ node = "load_document" /\ Running
    /\ \E content \in GraphDocs :
         LET r == load_document(source_exists, content)
         IN  IF r.raises # ""
             THEN /\ status' = "failed"
                  /\ executed' = Started(node)
                  /\ UNCHANGED <<raw_text, node, pc, footnotes_registry>>
             ELSE /\ raw_text' = r.raw_text
                  /\ executed' = Finished(Started(node), node)
                  /\ Advance
    /\ UNCHANGED <<source_exists, in_flight, raw_chunks,
                   raw_summary, enriched_summary>>
    /\ UNCHANGED <<max_size, sections, section, global_defs, enriched_section>>
    /\ UNCHANGED stitchVars
    /\ UNCHANGED <<chunkVars, retrieveVars, diffVars, cosineVars>>

\* the node naive_chunker
NaiveChunker ==
    /\ node = "naive_chunker" /\ Running
    /\ raw_chunks' = split_text(Explode(raw_text))
    /\ executed' = Finished(Started(node), node)
    /\ Advance
    /\ UNCHANGED <<source_exists, in_flight, raw_summary,
                   enriched_summary>>
    /\ UNCHANGED <<section, global_defs, enriched_section>>
    /\ UNCHANGED <<batchVars, stitchVars>>
    /\ UNCHANGED <<chunkVars, retrieveVars, diffVars, cosineVars>>

\* the node slm_footnote_stitcher is entered
StitcherEnter ==
    /\ node = "slm_footnote_stitcher" /\ Running
    /\ pc = "start"
    /\ pc' = "step1"
    /\ executed' = Started(node)
    /\ UNCHANGED <<source_exists, node, status, in_flight, raw_chunks,
                   footnotes_registry, raw_summary, enriched_summary>>
    /\ UNCHANGED <<section, global_defs, enriched_section>>
    /\ UNCHANGED <<batchVars, stitchVars>>
    /\ UNCHANGED <<chunkVars, retrieveVars, diffVars, cosineVars>>

\* steps 1, 2, 4 and 5 of slm_footnote_stitcher and its sort
StitcherStep ==
    /\ node = "slm_footnote_stitcher" /\ Running
    /\ \/ Step1PreExtract
       \/ Step2Batching
       \/ Step4Fold
       \/ Step5Backfill
       \/ StitchReturn

\* step 3: the appendix is injected and slm.invoke is called
SlmCall ==
    /\ node = "slm_footnote_stitcher" /\ Running
    /\ pc = "batched"
    /\ Len(healed_sections) < Len(sections)
    /\ section' = sections[Len(healed_sections) + 1]
    /\ enriched_section' = _inject_footnote_appendix(section', global_defs)
    /\ Call("slm.invoke")
    /\ pc' = "slm_invoke"
    /\ UNCHANGED <<source_exists, node, status, executed, raw_chunks,
                   footnotes_registry, raw_summary, enriched_summary>>
    /\ UNCHANGED global_defs
    /\ UNCHANGED <<batchVars, stitchVars>>
    /\ UNCHANGED <<chunkVars, vectorstore, k_per_query, retrieved, seen,
                   results, diffVars, cosineVars>>

\* step 3: slm.invoke returns and its stripped answer is kept
SlmReturn ==
    /\ node = "slm_footnote_stitcher" /\ Running
    /\ pc = "slm_invoke"
    /\ \E response \in GraphResponses :
          healed_sections' = Append(healed_sections, Strip(response))
    /\ in_flight' = in_flight - 1
    /\ pc' = "batched"
    /\ UNCHANGED <<source_exists, node, status, executed, raw_chunks,
                   footnotes_registry, raw_summary, enriched_summary>>
    /\ UNCHANGED <<section, global_defs, enriched_section>>
    /\ UNCHANGED <<healed_text, footnotes, registry, todo, unique_footnotes>>
    /\ UNCHANGED batchVars
    /\ UNCHANGED <<chunkVars, retrieveVars, diffVars, cosineVars>>

\* slm_footnote_stitcher returns {"enriched_text": healed_text.strip(),
\* "footnotes_registry": unique_footnotes}; the registry has the reducer
\* operator.add
StitcherDone ==
    /\ node = "slm_footnote_stitcher" /\ Running
    /\ pc = "stitched"
    /\ enriched_text' = Strip(healed_text)
    /\ executed' = Finished(executed, node)
    /\ Advance
    /\ UNCHANGED <<source_exists, in_flight, raw_chunks, raw_summary,
                   enriched_summary, enriched_chunks, protected>>
    /\ UNCHANGED <<section, global_defs, enriched_section>>
    /\ UNCHANGED <<batchVars, stitchVars>>
    /\ UNCHANGED <<retrieveVars, diffVars, cosineVars>>

\* the node enriched_chunker
EnrichedChunkerNode ==
    /\ node = "enriched_chunker" /\ Running
    /\ enriched_chunks' = split_text(protect(Explode(enriched_text)))
    /\ executed' = Finished(Started(node), node)
    /\ Advance
    /\ UNCHANGED <<source_exists, in_flight, raw_chunks,
                   raw_summary, enriched_summary, enriched_text, protected>>
    /\ UNCHANGED <<section, global_defs, enriched_section>>
    /\ UNCHANGED <<batchVars, stitchVars>>
    /\ UNCHANGED <<retrieveVars, diffVars, cosineVars>>

SummarizeNodes == {"summarize_raw", "summarize_enriched"}

\* FAISS.from_documents(docs, embeddings) on an empty list of documents:
\* the index is sized by embeddings[0], an IndexError
SummarizeNoDocuments ==
    /\ node = "summarize_raw" /\ Running
    /\ pc = "start"
    /\ ChunksOf(node) = <<>>
    /\ status' = "failed"
    /\ executed' = Started(node)
    /\ UNCHANGED <<source_exists, node, pc, in_flight, raw_chunks,
                   footnotes_registry, raw_summary, enriched_summary>>
    /\ UNCHANGED <<section, global_defs, enriched_section>>
    /\ UNCHANGED <<batchVars, stitchVars>>
    /\ UNCHANGED <<chunkVars, retrieveVars, diffVars, cosineVars>>

\* summarize_enriched with no chunk at all returns the placeholder summary;
\* otherwise FAISS.from_documents(docs, embeddings) sends the chunks to the
\* embedding service
SummarizeStart ==
    /\ node \in SummarizeNodes /\ Running
    /\ pc = "start"
    /\ ~(node = "summarize_raw" /\ ChunksOf(node) = <<>>)
    /\ IF ChunksOf(node) = <<>>
       THEN /\ enriched_summary' = NoChunksSummary
            /\ executed' = Finished(Started(node), node)
            /\ Advance
            /\ UNCHANGED <<in_flight, calls>>
       ELSE /\ Call("embed_documents")
            /\ pc' = "from_documents"
            /\ executed' = Started(node)
            /\ UNCHANGED <<node, status, enriched_summary, footnotes_registry>>
    /\ UNCHANGED <<source_exists, raw_chunks, raw_summary>>
    /\ UNCHANGED <<section, global_defs, enriched_section>>
    /\ UNCHANGED <<batchVars, stitchVars>>
    /\ UNCHANGED <<chunkVars, vectorstore, k_per_query, retrieved, seen,
                   results, diffVars, cosineVars>>

\* the embeddings return and the store is built
SummarizeEmbedReturn ==
    /\ node \in SummarizeNodes /\ Running
    /\ pc = "from_documents"
    /\ in_flight' = in_flight - 1
    /\ vectorstore' = ChunksOf(node)
    /\ retrieved' = <<>>
    /\ pc' = "retrieve"
    /\ UNCHANGED <<source_exists, node, status, executed, raw_chunks,
                   footnotes_registry, raw_summary, enriched_summary>>
    /\ UNCHANGED <<section, global_defs, enriched_section>>
    /\ UNCHANGED <<batchVars, stitchVars>>
    /\ UNCHANGED <<chunkVars, k_per_query, calls, seen, results, diffVars,
                   cosineVars>>

\* _multi_query_retrieve: the next query is sent to similarity_search,
\* which has it embedded
SummarizeSearchCall ==
    /\ node \in SummarizeNodes /\ Running
    /\ pc = "retrieve"
    /\ Len(retrieved) < Len(RETRIEVAL_QUERIES)
    /\ Call("similarity_search")
    /\ pc' = "similarity_search"
    /\ UNCHANGED <<source_exists, node, status, executed, raw_chunks,
                   footnotes_registry, raw_summary, enriched_summary>>
    /\ UNCHANGED <<section, global_defs, enriched_section>>
    /\ UNCHANGED <<batchVars, stitchVars>>
    /\ UNCHANGED <<chunkVars, vectorstore, k_per_query, retrieved, seen,
                   results, diffVars, cosineVars>>

\* similarity_search returns; what it returns goes into the prompt, which
\* nothing in the graph looks at
SummarizeSearchReturn ==
    /\ node \in SummarizeNodes /\ Running
    /\ pc = "similarity_search"
    /\ in_flight' = in_flight - 1
    /\ retrieved' = Append(retrieved, RETRIEVAL_QUERIES[Len(retrieved) + 1])
    /\ pc' = "retrieve"
    /\ UNCHANGED <<source_exists, node, status, executed, raw_chunks,
                   footnotes_registry, raw_summary, enriched_summary>>
    /\ UNCHANGED <<section, global_defs, enriched_section>>
    /\ UNCHANGED <<batchVars, stitchVars>>
    /\ UNCHANGED <<chunkVars, vectorstore, k_per_query, calls, seen, results,
                   diffVars, cosineVars>>

\* llm.invoke is called with the prompt
SummarizeLlmCall ==
    /\ node \in SummarizeNodes /\ Running
    /\ pc = "retrieve"
    /\ Len(retrieved) = Len(RETRIEVAL_QUERIES)
    /\ Call("llm.invoke")
    /\ pc' = "llm_invoke"
    /\ UNCHANGED <<source_exists, node, status, executed, raw_chunks,
                   footnotes_registry, raw_summary, enriched_summary>>
    /\ UNCHANGED <<section, global_defs, enriched_section>>
    /\ UNCHANGED <<batchVars, stitchVars>>
    /\ UNCHANGED <<chunkVars, vectorstore, k_per_query, retrieved, seen,
                   results, diffVars, cosineVars>>

\* llm.invoke returns: summary = response.content.strip()
SummarizeLlmReturn ==
    /\ node \in SummarizeNodes /\ Running
    /\ pc = "llm_invoke"
    /\ in_flight' = in_flight - 1
    /\ \E response \in Summaries :
          IF node = "summarize_raw"
          THEN raw_summary' = Strip(response) /\ UNCHANGED enriched_summary
          ELSE enriched_summary' = Strip(response) /\ UNCHANGED raw_summary
    /\ executed' = Finished(executed, node)
    /\ Advance
    /\ UNCHANGED <<source_exists, raw_chunks>>
    /\ UNCHANGED <<section, global_defs, enriched_section>>
    /\ UNCHANGED <<batchVars, stitchVars>>
    /\ UNCHANGED <<chunkVars, vectorstore, k_per_query, calls, retrieved, seen,
                   results, diffVars, cosineVars>>

\* the node generate_report: the report is written
GenerateReport ==
    /\ node = "generate_report" /\ Running
    /\ executed' = Finished(Started(node), node)
    /\ Advance
    /\ UNCHANGED <<source_exists, in_flight, raw_chunks,
                   raw_summary, enriched_summary>>
    /\ UNCHANGED <<section, global_defs, enriched_section>>
    /\ UNCHANGED <<batchVars, stitchVars>>
    /\ UNCHANGED <<chunkVars, retrieveVars, diffVars, cosineVars>>

\* generate_audit_report: "if embeddings_model and raw_summary and
\* enriched_summary"
WantsSemanticDiff == raw_summary # <<>> /\ enriched_summary # <<>>

\* the node generate_audit with a summary missing: no semantic diff
GenerateAuditPlain ==
    /\ node = "generate_audit" /\ Running
    /\ pc = "start"
    /\ ~WantsSemanticDiff
    /\ executed' = Finished(Started(node), node)
    /\ Advance
    /\ UNCHANGED <<source_exists, in_flight, raw_chunks,
                   raw_summary, enriched_summary>>
    /\ UNCHANGED <<section, global_defs, enriched_section>>
    /\ UNCHANGED <<batchVars, stitchVars>>
    /\ UNCHANGED <<chunkVars, retrieveVars, diffVars, cosineVars>>

\* the node generate_audit: _compute_semantic_diff sends the sentences of
\* the two summaries to the embedding service
GenerateAuditEmbedCall ==
    /\ node = "generate_audit" /\ Running
    /\ pc = "start"
    /\ WantsSemanticDiff
    /\ Call("embed_documents")
    /\ pc' = "semantic_diff"
    /\ executed' = Started(node)
    /\ UNCHANGED <<source_exists, node, status, raw_chunks, footnotes_registry,
                   raw_summary, enriched_summary>>
    /\ UNCHANGED <<section, global_defs, enriched_section>>
    /\ UNCHANGED <<batchVars, stitchVars>>
    /\ UNCHANGED <<chunkVars, vectorstore, k_per_query, retrieved, seen,
                   results, diffVars, cosineVars>>

\* the embeddings return and the audit report is written
GenerateAuditEmbedReturn ==
    /\ node = "generate_audit" /\ Running
    /\ pc = "semantic_diff"
    /\ in_flight' = in_flight - 1
    /\ executed' = Finished(executed, node)
    /\ Advance
    /\ UNCHANGED <<source_exists, raw_chunks, raw_summary,
                   enriched_summary>>
    /\ UNCHANGED <<section, global_defs, enriched_section>>
    /\ UNCHANGED <<batchVars, stitchVars>>
    /\ UNCHANGED <<chunkVars, vectorstore, k_per_query, calls, retrieved, seen,
                   results, diffVars, cosineVars>>

\* _rerender on the state of a finished run: generate_report and
\* generate_audit run again and state.update takes what they return
Rerender ==
    /\ status = "END"
    /\ pc = "start"
    /\ footnotes_registry' =
          DictUpdate(DictUpdate(footnotes_registry, Update("generate_report")),
                     Update("generate_audit"))
    /\ calls' = IF WantsSemanticDiff THEN Append(calls, "embed_documents")
                ELSE calls
    /\ pc' = "rerendered"
    /\ UNCHANGED <<source_exists, node, status, executed, in_flight, raw_chunks,
                   raw_summary, enriched_summary>>
    /\ UNCHANGED <<section, global_defs, enriched_section>>
    /\ UNCHANGED <<batchVars, stitchVars>>
    /\ UNCHANGED <<chunkVars, vectorstore, k_per_query, retrieved, seen,
                   results, diffVars, cosineVars>>

NextGraph ==
    \/ GraphStart
    \/ LoadDocument
    \/ NaiveChunker
    \/ StitcherEnter
    \/ StitcherStep
    \/ SlmCall
    \/ SlmReturn
    \/ StitcherDone
    \/ EnrichedChunkerNode
    \/ SummarizeNoDocuments
    \/ SummarizeStart
    \/ SummarizeEmbedReturn
    \/ SummarizeSearchCall
    \/ SummarizeSearchReturn
    \/ SummarizeLlmCall
    \/ SummarizeLlmReturn
    \/ GenerateReport
    \/ GenerateAuditPlain
    \/ GenerateAuditEmbedCall
    \/ GenerateAuditEmbedReturn
    \/ Rerender

SpecGraph == InitGraph /\ [][NextGraph]_vars

-----------------------------------------------------------------------------
(* Properties of the graph *)

\* the run has stopped: it reached END or a node raised
Stopped == status # "running"

\* every node started at most once and finished only if started
AtMostOnce ==
    \A n \in NodeSet :
        /\ executed.started[n] <= 1
        /\ executed.finished[n] <= executed.started[n]

\* a node starts only after the node before it has returned
InOrder ==
    \A i \in 2..Len(Nodes) :
        executed.started[Nodes[i]] <= executed.finished[Nodes[i - 1]]

\* every node has started and returned
AllExecuted == \A n \in NodeSet : executed.finished[n] = 1

\* C16: the graph is strictly sequential: every node runs at most once, a
\* node starts only after the one before it has returned, at most one call
\* of an outside service is in flight, and a run on a document that exists
\* stops only at END, with every node executed exactly once.
C16_SequentialToEnd ==
    /\ AtMostOnce
    /\ InOrder
    /\ in_flight <= 1
    /\ (source_exists /\ Stopped) => (status = "END" /\ AllExecuted)

\* C17: when the source document does not exist, load_document starts at
\* most once and raises, no other node starts, and no outside service is
\* called.
C17_MissingDocumentIsFatal ==
    ~source_exists =>
        /\ executed.started["load_document"] <= 1
        /\ executed.finished["load_document"] = 0
        /\ \A n \in NodeSet \ {"load_document"} : executed.started[n] = 0
        /\ executed.started["load_document"] = 1 => status = "failed"
        /\ status # "END"
        /\ calls = <<>>
        /\ in_flight = 0

\* the document is missing and load_document has raised
C17_Witness ==
    /\ ~source_exists
    /\ executed.started["load_document"] = 1
    /\ status = "failed"

\* C18: on a document that exists and yields no chunk no node raises:
\* summarize_raw and summarize_enriched return and the run goes on to END.
C18_EmptyInputDoesNotFail ==
    (source_exists /\ executed.finished["naive_chunker"] = 1
        /\ raw_chunks = <<>>)
    => status # "failed"


\* C21: once slm_footnote_stitcher has returned, no step of the graph and
\* no _rerender changes the registry held in the state.
C21_RegistryImmutableAfterStitcher ==
    [][executed.finished["slm_footnote_stitcher"] = 1
          => footnotes_registry' = footnotes_registry]_vars

\* a run that ended and was rendered again, with footnotes in its registry
C21_Witness ==
    /\ pc = "rerendered"
    /\ footnotes_registry # <<>>
    /\ footnotes_registry = unique_footnotes

-----------------------------------------------------------------------------
(* The scanner alone: _extract_global_footnote_defs on documents made of *)
(* definition lines                                                       *)

\* the lines: definitions of [1] of equal length, one that is longer only
\* before its whitespace is normalised, one written [01], a definition of
\* [2], a continuation line and a line that ends a definition
ScanLines ==
    { <<"[1]", " ", "Unaudited.">>,
      <<"[1]", " ", "Estimated.">>,
      <<"[1]", " ", "Net", " ", " ", " ", " ", "fee.">>,
      <<"[01]", " ", "Provisional.">>,
      <<"[2]", " ", "See", " ", "note.">>,
      <<"continued">>,
      <<"CONFIDENTIAL">> }

\* the documents: up to MaxDefLines lines
ScanDocs ==
    { JoinWith(<<"\n">>, lines) :
        lines \in UNION { [1..k -> ScanLines] : k \in 0..MaxDefLines } }

InitScan ==
    /\ pc = "call_extract_global_footnote_defs"
    /\ raw_text \in ScanDocs
    /\ max_size = SLM_BATCH_SIZE
    /\ sections = <<>>
    /\ section = Idle /\ enriched_section = Idle
    /\ global_defs = EmptyDict
    /\ healed_sections = <<>>
    /\ healed_text = <<>>
    /\ footnotes = <<>>
    /\ registry = EmptyDict
    /\ todo = <<>>
    /\ unique_footnotes = <<>>
    /\ LaterIdle

\* global_defs = _extract_global_footnote_defs(raw_text)
ExtractGlobalFootnoteDefs ==
    /\ pc = "call_extract_global_footnote_defs"
    /\ global_defs' = _extract_global_footnote_defs(raw_text)
    /\ pc' = "scanned"
    /\ UNCHANGED <<section, enriched_section>>
    /\ UNCHANGED batchVars
    /\ UNCHANGED stitchVars
    /\ UNCHANGED laterVars

NextScan == ExtractGlobalFootnoteDefs

SpecScan == InitScan /\ [][NextScan]_vars

-----------------------------------------------------------------------------
(* Properties of the scanner *)

Scanned == pc = "scanned"

\* the candidate definitions of the document, in the order they are met
Candidates == FindDefs(raw_text, 1)

\* the text of candidate i, its whitespace normalised
Normalised(i) == SplitJoin(Candidates[i].group, 1, <<>>, FALSE)

\* the candidates of marker m
CandidatesOf(m) == {i \in DOMAIN Candidates : Candidates[i].marker = m}

\* the candidates of marker m that no candidate of m is longer than
LongestOf(m) ==
    {i \in CandidatesOf(m) :
        \A j \in CandidatesOf(m) :
            TextLen(Normalised(i)) >= TextLen(Normalised(j))}

\* C20: the mapping returned has one entry for each marker that has a
\* candidate definition and no other; the text kept for a marker is that of
\* the first of its candidates that none is longer than, lengths taken
\* after the whitespace is normalised; without a candidate the mapping is
\* empty.
C20_KeepsFirstLongest ==
    Scanned =>
        /\ \A i, j \in DOMAIN global_defs.keys :
              global_defs.keys[i] = global_defs.keys[j] => i = j
        /\ { global_defs.keys[i] : i \in DOMAIN global_defs.keys }
              = DOMAIN global_defs.val
        /\ DOMAIN global_defs.val
              = { Candidates[i].marker : i \in DOMAIN Candidates }
        /\ \A m \in DOMAIN global_defs.val :
              global_defs.val[m] = Normalised(Least(LongestOf(m)))
        /\ Candidates = <<>> => global_defs = EmptyDict

\* a marker with three candidates: a shorter one, then two of the greatest
\* length with different texts, the first of which is kept
C20_Witness ==
    /\ Scanned
    /\ \E m \in DOMAIN global_defs.val :
          \E i, j, k \in CandidatesOf(m) :
              /\ i < j /\ j < k
              /\ j \in LongestOf(m) /\ k \in LongestOf(m)
              /\ i \notin LongestOf(m)
              /\ Normalised(j) # Normalised(k)
              /\ global_defs.val[m] = Normalised(j)

-----------------------------------------------------------------------------
(* Further properties of the stitcher *)

\* the fold is over and the backfill has not begun
Folded == pc = "step5" /\ todo = global_defs.keys

\* the occurrences of marker m that are not sentinels and that no other
\* such occurrence is longer than
LongestUsable(m) ==
    {i \in Usable(m) :
        \A j \in Usable(m) :
            TextLen(footnotes[i].text) >= TextLen(footnotes[j].text)}

\* C22: after the fold and before the backfill the entry of a marker is
\* the earliest of its longest occurrences that are not sentinels, or, if
\* all its occurrences are sentinels, its first occurrence.
C22_FoldWinner ==
    Folded =>
        /\ DOMAIN registry.val = ExtractedMarkers
        /\ \A m \in ExtractedMarkers :
              registry.val[m] =
                  footnotes[Least(IF Usable(m) # {} THEN LongestUsable(m)
                                  ELSE Occurrences(m))]

\* a marker whose first occurrence is a sentinel, followed by two longest
\* occurrences of different text: the first of the two is the entry
C22_Witness ==
    /\ Folded
    /\ \E m \in ExtractedMarkers :
          \E i, j, k \in Occurrences(m) :
              /\ i < j /\ j < k
              /\ i \notin Usable(m)
              /\ j \in LongestUsable(m) /\ k \in LongestUsable(m)
              /\ footnotes[j].text # footnotes[k].text
              /\ registry.val[m] = footnotes[j]

\* the records of the returned registry
Records == { unique_footnotes[i] : i \in DOMAIN unique_footnotes }

\* C23: no record of the returned registry with status "linked" has a
\* text that holds the sentinel "MISSING", in any case.
C23_LinkedIsUsable ==
    Stitched =>
        \A r \in Records : r.status = "linked" => ~SentinelFlagged(r.text)

\* C24: in the returned registry a record with status "backfilled" has a
\* marker of the ground-truth mapping and the text of that mapping, and a
\* record with status "linked" has the stripped text of an extracted
\* occurrence of its marker.
C24_RecordProvenance ==
    Stitched =>
        \A r \in Records :
            /\ r.status \in {"backfilled", "linked"}
            /\ r.status = "backfilled" =>
                  /\ r.marker \in GroundTruthMarkers
                  /\ r.text = global_defs.val[r.marker]
            /\ r.status = "linked" =>
                  /\ \E i \in Occurrences(r.marker) : footnotes[i].text = r.text
                  /\ Strip(r.text) = r.text

\* a backfilled record whose marker the SLM annotated with another text,
\* beside a linked record
C24_Witness ==
    /\ Stitched
    /\ \E r \in Records :
          /\ r.status = "backfilled"
          /\ Occurrences(r.marker) # {}
          /\ \A i \in Occurrences(r.marker) : footnotes[i].text # r.text
    /\ \E r \in Records : r.status = "linked"

-----------------------------------------------------------------------------
(* Further properties of the batcher *)

\* the first page of a section: up to its first page marker, or all of it
FirstPage(sec) ==
    LET marks == {i \in DOMAIN sec : IsPageMarker(sec[i])}
    IN  IF marks = {} THEN sec ELSE SubSeq(sec, 1, Least(marks))

\* C25: the sections of _page_aware_sections are the pages of the
\* document in order, and a section followed by another could not have
\* taken the first page of that other: together they exceed max_size.
C25_GreedyMaximal ==
    FromPager =>
        /\ IsPrefix(Concat(sections), raw_text)
        /\ \A k \in 1..(Len(sections) - 1) :
              TextLen(sections[k]) + TextLen(FirstPage(sections[k + 1]))
                  > max_size

\* a section of two pages within max_size, closed before a page that
\* would fit alone but not with them
C25_Witness ==
    /\ pc = "paged"
    /\ \E k \in 1..(Len(sections) - 1) :
          /\ PagesIn(sections[k]) >= 2
          /\ TextLen(sections[k]) <= max_size
          /\ TextLen(FirstPage(sections[k + 1])) <= max_size

-----------------------------------------------------------------------------
(* The protection of enriched_chunker alone *)

MaxProtectSegments == 3

\* what a text is made of: a line of text, an opening that is not closed
\* in its segment, a closing brace between newlines, and annotations
\* without a newline, with newlines and with an opening inside
ProtectSegments ==
    { <<"x*20", "\n">>,
      <<"{FOOTNOTE", " ", "[2]", ":", "\n", "x*20">>,
      <<"\n", "}", "\n">>,
      SpanOf(<<" ", "x*20">>),
      SpanOf(<<"\n", "x*100", "\n", "x*20">>),
      SpanOf(<<"\n", "{FOOTNOTE", "\n">>) }

ProtectTexts ==
    { Concat(segs) :
        segs \in UNION { [1..n -> ProtectSegments] :
                            n \in 0..MaxProtectSegments } }

InitProtect ==
    /\ pc = "call_protect"
    /\ enriched_text \in ProtectTexts
    /\ enriched_chunks = Idle
    /\ protected = Idle
    /\ raw_text = Idle /\ max_size = SLM_BATCH_SIZE /\ sections = Idle
    /\ section = Idle /\ global_defs = Idle /\ enriched_section = Idle
    /\ healed_sections = Idle /\ healed_text = Idle /\ footnotes = Idle
    /\ registry = Idle /\ todo = Idle /\ unique_footnotes = Idle
    /\ RetrieveIdle /\ DiffIdle /\ CosineIdle /\ GraphIdle

\* protected = re.sub(r"\{FOOTNOTE.*?\}", _protect, text, flags=re.DOTALL)
CallProtect ==
    /\ pc = "call_protect"
    /\ protected' = protect(enriched_text)
    /\ pc' = "protected"
    /\ UNCHANGED <<enriched_text, enriched_chunks, section, global_defs,
                   enriched_section>>
    /\ UNCHANGED <<batchVars, stitchVars>>
    /\ UNCHANGED <<retrieveVars, diffVars, cosineVars, graphVars>>

NextProtect == CallProtect

SpecProtect == InitProtect /\ [][NextProtect]_vars

-----------------------------------------------------------------------------
(* Properties of the protection *)

Protected == pc = "protected"

\* the lexemes of a text that lie in an annotation span, braces included
InSpan(text) ==
    {i \in DOMAIN text :
        \E span \in Spans(text) :
            /\ span[1] <= OffsetOf(text, i)
            /\ OffsetOf(text, i + 1) <= span[2]}

\* C26: the protected text has the length of the enriched text and
\* differs from it only where a newline stood inside an annotation span,
\* which became one space; no newline is left inside a span, the text
\* outside the spans is unchanged, and protecting the protected text
\* changes nothing.
C26_ProtectOnlyNewlinesInSpans ==
    Protected =>
        /\ Len(protected) = Len(enriched_text)
        /\ TextLen(protected) = TextLen(enriched_text)
        /\ \A i \in DOMAIN enriched_text :
              /\ protected[i] # enriched_text[i] =>
                    /\ i \in InSpan(enriched_text)
                    /\ enriched_text[i] = "\n"
                    /\ protected[i] = " "
              /\ i \in InSpan(enriched_text) => protected[i] # "\n"
        /\ \A i \in InSpan(protected) : protected[i] # "\n"
        /\ protect(protected) = protected

\* a text with a newline inside a span, which changed, a newline outside
\* every span and an opening that is never closed, which did not
C26_Witness ==
    /\ Protected
    /\ protected # enriched_text
    /\ \E i \in DOMAIN protected :
          protected[i] = "\n" /\ i \notin InSpan(enriched_text)
    /\ \E i \in DOMAIN protected :
          /\ protected[i] = "{FOOTNOTE"
          /\ i \notin InSpan(enriched_text)
          /\ \E j \in DOMAIN protected : j > i /\ protected[j] = "\n"

-----------------------------------------------------------------------------
(* Further properties of _compute_semantic_diff *)

\* sentence i of A and sentence j of B are the same string
Identical(i, j) == sentences_a[i] = sentences_b[j]

\* C27 as stated: a sentence that stands in both A and B is shared, not
\* novel, on both sides, whatever the embedding of equal strings to equal
\* vectors.
C27_IdenticalIsShared ==
    DiffReturned =>
        \A i \in DOMAIN sentences_a, j \in DOMAIN sentences_b :
            Identical(i, j) => ~novel_a[i] /\ ~novel_b[j]

\* C27 amended: a sentence that stands in both A and B is shared on both
\* sides when its embedding has a magnitude that is not zero; when its
\* embedding is the zero vector it is novel on both sides.
C27_IdenticalNonZeroIsShared ==
    DiffReturned =>
        \A i \in DOMAIN sentences_a, j \in DOMAIN sentences_b :
            Identical(i, j) =>
                IF ZeroMagnitude(embedding[sentences_a[i]])
                THEN novel_a[i] /\ novel_b[j]
                ELSE ~novel_a[i] /\ ~novel_b[j]

\* a sentence second in A and second in B, with an embedding that is not
\* zero, after first sentences that are novel
C27_Witness ==
    /\ DiffReturned
    /\ Len(sentences_a) = 2 /\ Len(sentences_b) = 2
    /\ Identical(2, 2)
    /\ ~ZeroMagnitude(embedding[sentences_a[2]])
    /\ novel_a[1] /\ novel_b[1]
    /\ ~novel_a[2] /\ ~novel_b[2]

-----------------------------------------------------------------------------
(* _split_sentences *)

\* the words of the summaries: short and long, with and without a capital
\* at the start, with and without one of . ! ? ; at the end
Words ==
    { "Ok.", "and", "note;", "Margins-improved-in-the-period",
      "unaudited-figures-are-in-brackets." }

\* (?<=[.!?;]): the lexeme ends with one of . ! ? ;
EndsSentence(t) == t \in {"Ok.", "note;", "unaudited-figures-are-in-brackets."}

\* (?=[A-Z"“(]): the lexeme starts with a capital, a quote or a bracket
StartsSentence(t) == t \in {"Ok.", "Margins-improved-in-the-period"}

\* (?<=[.!?;])\s+(?=[A-Z"“(]) matches at lexeme i: all the whitespace
\* from i on, after a sentence end and before a sentence start
AfterSentence(text, i) ==
    /\ i > 1
    /\ EndsSentence(text[i - 1])
    /\ IsSpace(text[i])
    /\ SkipSpace(text, i) <= Len(text)
    /\ StartsSentence(text[SkipSpace(text, i)])

\* (?<=\n)\s* matches at lexeme i: the whitespace from i on, or nothing
AfterNewline(text, i) == i > 1 /\ text[i - 1] = "\n"

RECURSIVE SentenceSplit(_, _, _, _)
\* _SENTENCE_RE.split(text): the parts between the matches, cur being the
\* part that lexeme i would go to
SentenceSplit(text, i, cur, parts) ==
    IF i > Len(text) THEN Append(parts, cur)
    ELSE IF AfterSentence(text, i)
    THEN SentenceSplit(text, SkipSpace(text, i), <<>>, Append(parts, cur))
    ELSE IF AfterNewline(text, i) /\ IsSpace(text[i])
    THEN SentenceSplit(text, SkipSpace(text, i), <<>>, Append(parts, cur))
    ELSE IF AfterNewline(text, i)
    THEN SentenceSplit(text, i + 1, <<text[i]>>, Append(parts, cur))
    ELSE SentenceSplit(text, i + 1, Append(cur, text[i]), parts)

\* every fragment under 31 characters counts as short
IsShortOrThirty(p) == TextLen(p) <= 30

\* "len(p) < 30"
IsShort(p) == TextLen(p) < 30

RECURSIVE MergeShort(_, _)
\* the loop over parts: empty fragments are passed over, a short fragment
\* goes to the end of the last segment, after a space
MergeShort(parts, merged) ==
    IF parts = <<>> THEN merged
    ELSE LET p == Strip(Head(parts))
         IN  IF p = <<>> THEN MergeShort(Tail(parts), merged)
             ELSE IF merged # <<>> /\ IsShort(p)
             THEN MergeShort(Tail(parts),
                             [merged EXCEPT ![Len(merged)] = @ \o <<" ">> \o p])
             ELSE MergeShort(Tail(parts), Append(merged, p))

_split_sentences(text) ==
    MergeShort(SentenceSplit(Strip(text), 1, <<>>, <<>>), <<>>)

-----------------------------------------------------------------------------
(* Inputs and specification of _split_sentences *)

\* the texts: up to MaxLexemes words, spaces and newlines
SplitTexts ==
    UNION { [1..n -> Words \cup {" ", "\n"}] : n \in 0..MaxLexemes }

InitSplit ==
    /\ pc = "call_split_sentences"
    /\ raw_summary \in SplitTexts
    /\ sentences_a = <<>>
    /\ sentences_b = Idle /\ embedding = Idle
    /\ novel_a = Idle /\ novel_b = Idle
    /\ source_exists = FALSE /\ node = "" /\ status = ""
    /\ executed = Idle /\ in_flight = 0 /\ raw_chunks = Idle
    /\ footnotes_registry = Idle /\ enriched_summary = Idle
    /\ raw_text = Idle /\ max_size = SLM_BATCH_SIZE /\ sections = Idle
    /\ section = Idle /\ global_defs = Idle /\ enriched_section = Idle
    /\ healed_sections = Idle /\ healed_text = Idle /\ footnotes = Idle
    /\ registry = Idle /\ todo = Idle /\ unique_footnotes = Idle
    /\ ChunkIdle /\ RetrieveIdle /\ CosineIdle

\* sentences_a = _split_sentences(raw_summary)
CallSplitSentences ==
    /\ pc = "call_split_sentences"
    /\ sentences_a' = _split_sentences(raw_summary)
    /\ pc' = "split"
    /\ UNCHANGED <<sentences_b, embedding, novel_a, novel_b>>
    /\ UNCHANGED <<section, global_defs, enriched_section>>
    /\ UNCHANGED <<batchVars, stitchVars>>
    /\ UNCHANGED <<chunkVars, retrieveVars, cosineVars, graphVars>>

NextSplit == CallSplitSentences

SpecSplit == InitSplit /\ [][NextSplit]_vars

-----------------------------------------------------------------------------
(* Properties of _split_sentences *)

SplitReturned == pc = "split"

RECURSIVE NonEmpty(_)
\* the stripped parts that are not empty, in order
NonEmpty(parts) ==
    IF parts = <<>> THEN <<>>
    ELSE (IF StripTruthy(Head(parts)) THEN <<Strip(Head(parts))>> ELSE <<>>)
         \o NonEmpty(Tail(parts))

\* the fragments of the text the call was given
Fragments == NonEmpty(SentenceSplit(Strip(raw_summary), 1, <<>>, <<>>))

\* the fragments that open a segment: the first, and those of 30
\* characters or more
Openers == {k \in DOMAIN Fragments : k = 1 \/ TextLen(Fragments[k]) >= 30}

\* the n-th opener
Opener(n) ==
    CHOOSE s \in Openers : Cardinality({t \in Openers : t <= s}) = n

\* the last fragment of the segment that Opener(n) opens
Closer(n) ==
    IF n = Cardinality(Openers) THEN Len(Fragments) ELSE Opener(n + 1) - 1

\* C28: no segment returned is empty; there is one segment for the first
\* fragment and one for every later fragment of at least 30 characters,
\* and each is its opening fragment followed by the shorter fragments
\* that come after it, joined by single spaces; a text that is empty or
\* whitespace gives no segment.
C28_ShortFragmentsMerged ==
    SplitReturned =>
        /\ \A n \in DOMAIN sentences_a : StripTruthy(sentences_a[n])
        /\ ~StripTruthy(raw_summary) => sentences_a = <<>>
        /\ Len(sentences_a) = Cardinality(Openers)
        /\ \A n \in DOMAIN sentences_a :
              sentences_a[n] =
                  JoinWith(<<" ">>, SubSeq(Fragments, Opener(n), Closer(n)))

\* a short first fragment, a short second one that joined it, and a third
\* of exactly 30 characters that opened a segment
C28_Witness ==
    /\ SplitReturned
    /\ Len(Fragments) = 3
    /\ TextLen(Fragments[1]) < 30
    /\ TextLen(Fragments[2]) < 30
    /\ TextLen(Fragments[3]) = 30
    /\ sentences_a = <<Fragments[1] \o <<" ">> \o Fragments[2], Fragments[3]>>

-----------------------------------------------------------------------------
(* summarize_enriched alone, on any lists of chunks *)

\* lists of chunks, as slices: none, one, two and three chunks
ChunkLists ==
    { <<>>,
      << <<0, 100>> >>,
      << <<0, 800>>, <<700, 1200>> >>,
      << <<0, 300>>, <<301, 620>>, <<621, 700>> >> }

InitSummarize ==
    /\ pc = "start"
    /\ node = "summarize_enriched"
    /\ status = "running"
    /\ source_exists = TRUE
    /\ executed = [started |-> [n \in NodeSet |-> 0],
                   finished |-> [n \in NodeSet |-> 0]]
    /\ in_flight = 0
    /\ calls = <<>>
    /\ raw_chunks \in ChunkLists
    /\ enriched_chunks \in ChunkLists
    /\ raw_text = <<>>
    /\ enriched_text = <<>>
    /\ protected = Idle
    /\ footnotes_registry = <<>>
    /\ raw_summary = <<>>
    /\ enriched_summary = <<>>
    /\ max_size = SLM_BATCH_SIZE
    /\ sections = <<>>
    /\ section = Idle /\ enriched_section = Idle
    /\ global_defs = EmptyDict
    /\ healed_sections = <<>> /\ healed_text = <<>> /\ footnotes = <<>>
    /\ registry = EmptyDict /\ todo = <<>> /\ unique_footnotes = <<>>
    /\ vectorstore = Idle /\ k_per_query = TOP_K /\ retrieved = Idle
    /\ seen = {} /\ results = Idle
    /\ DiffIdle /\ CosineIdle

\* the steps of the one call summarize_enriched(state)
NextSummarize ==
    \/ SummarizeStart
    \/ SummarizeEmbedReturn
    \/ SummarizeSearchCall
    \/ SummarizeSearchReturn
    \/ SummarizeLlmCall
    \/ SummarizeLlmReturn

SpecSummarize == InitSummarize /\ [][NextSummarize]_vars

-----------------------------------------------------------------------------
(* Properties of summarize_enriched *)

\* summarize_enriched has begun
EnrichedBegun == executed.started["summarize_enriched"] = 1

\* summarize_enriched has returned
EnrichedReturned == executed.finished["summarize_enriched"] = 1

\* the store of the call has been built
StoreBuilt ==
    /\ EnrichedBegun
    /\ node = "generate_report" \/ pc \notin {"start", "from_documents"}

\* C29: summarize_enriched builds its store from the enriched chunks when
\* there is one, from the raw chunks when there is no enriched chunk, and
\* with no chunk at all it returns the placeholder summary and calls no
\* outside service.
C29_EnrichedFallback ==
    /\ (StoreBuilt /\ enriched_chunks # <<>>) => vectorstore = enriched_chunks
    /\ (StoreBuilt /\ enriched_chunks = <<>> /\ raw_chunks # <<>>)
          => vectorstore = raw_chunks
    /\ (EnrichedBegun /\ enriched_chunks = <<>> /\ raw_chunks = <<>>) =>
          /\ EnrichedReturned
          /\ enriched_summary = NoChunksSummary
          /\ calls = <<>>
          /\ in_flight = 0
    /\ (EnrichedReturned /\ (enriched_chunks # <<>> \/ raw_chunks # <<>>)) =>
          /\ calls = <<"embed_documents">>
                     \o [q \in DOMAIN RETRIEVAL_QUERIES |-> "similarity_search"]
                     \o <<"llm.invoke">>
          /\ enriched_summary # NoChunksSummary

\* the call fell back to the raw chunks and returned a summary
C29_Witness ==
    /\ EnrichedReturned
    /\ enriched_chunks = <<>>
    /\ raw_chunks # <<>>
    /\ vectorstore = raw_chunks
    /\ enriched_summary # <<>>

\* the call found no chunk and returned the placeholder
C29_WitnessNoChunks ==
    /\ EnrichedReturned
    /\ enriched_chunks = <<>> /\ raw_chunks = <<>>
    /\ enriched_summary = NoChunksSummary

====
